---- MODULE Spec2Model ----
(***************************************************************************)
(* A model of the rdb-rs streaming decoder (src/src/lib.rs): the parser    *)
(* state (input reader, filter, formatter, last_expiretime), the opcode    *)
(* loop of RdbParser::parse and the readers and skippers it calls.         *)
(*                                                                         *)
(* Bytes are integers 0..255, byte strings are sequences of them, and a    *)
(* reader is a pair (s, p): the byte string s and the 1-based index p of   *)
(* the next unread byte.  Every reader operator returns a record with      *)
(* ok = FALSE where the Rust code panics (unwrap of a short read, panic!,  *)
(* assert!), and with the formatter calls it made until then in ev.        *)
(*                                                                         *)
(* parse() returns (): a run of it either returns after the EOF opcode     *)
(* (pc = "done") or unwinds in a panic (pc = "panic"); it has no error     *)
(* value to return.                                                        *)
(*                                                                         *)
(* The Protocol, Plain and JSON formatters (src/src/formatter/*.rs) are    *)
(* given every call the parser makes; SpecFormatter runs them under any    *)
(* caller that keeps to the order of the Formatter operations.             *)
(***************************************************************************)
EXTENDS Integers, Sequences, FiniteSets, TLC

VARIABLES
    input,            \* RdbParser.input: the whole byte stream
    pos,              \* the reader's position in input (next unread index)
    filter,           \* RdbParser.filter: a StrictFilter
    formatter,        \* RdbParser.formatter: the calls received, in order
    last_expiretime,  \* RdbParser.last_expiretime: <<>> (None) or <<ms>>
    last_database,    \* the local last_database of parse()
    pc,               \* "start" | "loop" | "done" | "panic" (SpecFormatter: the
                      \* caller's place, "new" | "rdb" | "db" | a family | "ended")
                      \* (SpecReadPb: "reading"; SpecWriter: "writing")
    trace,            \* history: one entry per iteration of the opcode loop
                      \* (SpecReadPb, SpecWriter: one entry per call)
    formatter_err,    \* the formatter call that returns Err (0: none does)
    protocol,         \* a Protocol formatter given the same calls: out, last_expiry
    plain,            \* a Plain formatter given the same calls: out, dbnum, index
    json,             \* a JSON formatter given the same calls: out and its flags
    progress_bar,     \* ReadProgressBar.progress_bar: the position it shows
    writer            \* the bytes a Write has accepted from write_str, in order

vars == <<input, pos, filter, formatter, last_expiretime, last_database, pc, trace,
          formatter_err, protocol, plain, json, progress_bar, writer>>

(***************************************************************************)
(* Program constants                                                       *)
(***************************************************************************)
SUPPORTED_MINIMUM == 1
SUPPORTED_MAXIMUM == 7

RDB_6BITLEN == 0
RDB_14BITLEN == 1
RDB_ENCVAL == 3
RDB_MAGIC == <<82, 69, 68, 73, 83>>      \* "REDIS"

AUX == 250
RESIZEDB == 251
EXPIRETIME_MS == 252
EXPIRETIME == 253
SELECTDB == 254
EOF == 255

types_STRING == 0
types_LIST == 1
types_SET == 2
types_ZSET == 3
types_HASH == 4
types_HASH_ZIPMAP == 9
types_LIST_ZIPLIST == 10
types_SET_INTSET == 11
types_ZSET_ZIPLIST == 12
types_HASH_ZIPLIST == 13
types_LIST_QUICKLIST == 14

INT8 == 0
INT16 == 1
INT32 == 2
LZF == 3

None == <<>>
Some(x) == <<x>>

(***************************************************************************)
(* The byte reader (std::io::Reader over the input, MemReader over a blob) *)
(***************************************************************************)
Have(s, p, n) == p + n - 1 <= Len(s)

Slice(s, p, n) == SubSeq(s, p, p + n - 1)

\* The position a reader is left at by a read that hit the end of the stream.
AtEnd(s) == Len(s) + 1

\* read_be_u32
BE32(s, p) == ((s[p] * 256 + s[p + 1]) * 256 + s[p + 2]) * 256 + s[p + 3]

\* Little-endian reads of w bytes: unsigned, and two's complement (computed
\* from the complemented bytes for a negative value, so that no intermediate
\* value leaves the range of the result).
RECURSIVE LEU(_, _, _)
LEU(s, p, w) == IF w = 0 THEN 0 ELSE LEU(s, p + 1, w - 1) * 256 + s[p]

RECURSIVE LEC(_, _, _)
LEC(s, p, w) == IF w = 0 THEN 0 ELSE LEC(s, p + 1, w - 1) * 256 + (255 - s[p])

LES(s, p, w) == IF s[p + w - 1] >= 128 THEN -LEC(s, p, w) - 1 ELSE LEU(s, p, w)

\* read_le_u16 / read_le_u32 / read_le_u64
LE16(s, p) == LEU(s, p, 2)

LE32(s, p) == LEU(s, p, 4)

LE64(s, p) == LEU(s, p, 8)

\* read_i8 / read_le_i16 / read_le_i32 / read_le_i64
I8(s, p) == LES(s, p, 1)

LEI16(s, p) == LES(s, p, 2)

LEI32(s, p) == LES(s, p, 4)

LEI64(s, p) == LES(s, p, 8)

(***************************************************************************)
(* helper::int_to_vec, i64::to_string: the decimal text of an integer      *)
(***************************************************************************)
RECURSIVE NatDigits(_)
NatDigits(n) == IF n < 10 THEN <<48 + n>> ELSE NatDigits(n \div 10) \o <<48 + (n % 10)>>

int_to_vec(number) ==
    IF number < 0
    THEN <<45>> \o (IF number = -2147483647 - 1
                    THEN NatDigits(214748364) \o <<56>>
                    ELSE NatDigits(-number))
    ELSE NatDigits(number)

(***************************************************************************)
(* A value the Rust code binds with `let` and then uses more than once is  *)
(* bound here as the parameter of a continuation operator (ReadBlobOf      *)
(* continues read_blob after its first `let`, and so on).                  *)
(***************************************************************************)

(***************************************************************************)
(* read_length_with_encoding, read_length                                  *)
(***************************************************************************)
LenFail(s) == [ok |-> FALSE, length |-> 0, is_encoded |-> FALSE, p |-> AtEnd(s)]

read_length_with_encoding(s, p) ==
    IF ~Have(s, p, 1) THEN LenFail(s)
    ELSE CASE s[p] \div 64 = RDB_ENCVAL ->
                [ok |-> TRUE, length |-> s[p] % 64, is_encoded |-> TRUE, p |-> p + 1]
           [] s[p] \div 64 = RDB_6BITLEN ->
                [ok |-> TRUE, length |-> s[p] % 64, is_encoded |-> FALSE, p |-> p + 1]
           [] s[p] \div 64 = RDB_14BITLEN ->
                IF Have(s, p + 1, 1)
                THEN [ok |-> TRUE, length |-> (s[p] % 64) * 256 + s[p + 1],
                      is_encoded |-> FALSE, p |-> p + 2]
                ELSE LenFail(s)
           [] OTHER ->
                IF Have(s, p + 1, 4)
                THEN [ok |-> TRUE, length |-> BE32(s, p + 1), is_encoded |-> FALSE, p |-> p + 5]
                ELSE LenFail(s)

read_length(s, p) == read_length_with_encoding(s, p)

(***************************************************************************)
(* lzf::decompress(data, real_length): literal runs and back references.   *)
(* Fails on truncated or corrupt data and when the output would exceed     *)
(* real_length.                                                            *)
(***************************************************************************)
LzfFail == [ok |-> FALSE, val |-> <<>>]

RECURSIVE LzfCopy(_, _, _)
LzfCopy(out, ref, n) == IF n = 0 THEN out ELSE LzfCopy(Append(out, out[ref]), ref + 1, n - 1)

RECURSIVE LzfRun(_, _, _, _)
\* a back reference of n bytes, off + 1 bytes back, its header hdr bytes long
LzfRef(data, i, out, max_len, hdr, n, off) ==
    IF Len(out) - off < 1 \/ Len(out) + n > max_len THEN LzfFail
    ELSE LzfRun(data, i + hdr, LzfCopy(out, Len(out) - off, n), max_len)

LzfRun(data, i, out, max_len) ==
    IF i > Len(data) THEN [ok |-> TRUE, val |-> out]
    ELSE IF data[i] < 32
    THEN \* a literal run of data[i] + 1 bytes
         IF Have(data, i + 1, data[i] + 1) /\ Len(out) + data[i] + 1 <= max_len
         THEN LzfRun(data, i + data[i] + 2, out \o Slice(data, i + 1, data[i] + 1), max_len)
         ELSE LzfFail
    ELSE IF data[i] \div 32 = 7
    THEN IF Have(data, i, 3)
         THEN LzfRef(data, i, out, max_len, 3, 7 + data[i + 1] + 2,
                     (data[i] % 32) * 256 + data[i + 2])
         ELSE LzfFail
    ELSE IF Have(data, i, 2)
         THEN LzfRef(data, i, out, max_len, 2, data[i] \div 32 + 2,
                     (data[i] % 32) * 256 + data[i + 1])
         ELSE LzfFail

lzf_decompress(data, real_length) ==
    IF Len(data) = 0 THEN LzfFail ELSE LzfRun(data, 1, <<>>, real_length)

(***************************************************************************)
(* read_blob                                                               *)
(***************************************************************************)
BlobFail(s) == [ok |-> FALSE, val |-> <<>>, p |-> AtEnd(s)]

Blob(val, p) == [ok |-> TRUE, val |-> val, p |-> p]

ReadLzfOf(s, c, r, d) ==
    IF d.ok THEN Blob(d.val, r.p + c.length) ELSE BlobFail(s)

ReadLzf(s, c, r) ==
    IF ~c.ok \/ ~r.ok \/ ~Have(s, r.p, c.length) THEN BlobFail(s)
    ELSE ReadLzfOf(s, c, r, lzf_decompress(Slice(s, r.p, c.length), r.length))

ReadLzfLengths(s, c) == ReadLzf(s, c, read_length(s, c.p))

\* read_blob with the INT8 arm reading an unsigned byte
ReadBlobOfUnsigned(s, l) ==
    IF ~l.ok THEN BlobFail(s)
    ELSE IF l.is_encoded
    THEN CASE l.length = INT8 ->
                IF Have(s, l.p, 1) THEN Blob(int_to_vec(s[l.p]), l.p + 1) ELSE BlobFail(s)
           [] l.length = INT16 ->
                IF Have(s, l.p, 2) THEN Blob(int_to_vec(LEI16(s, l.p)), l.p + 2) ELSE BlobFail(s)
           [] l.length = INT32 ->
                IF Have(s, l.p, 4) THEN Blob(int_to_vec(LEI32(s, l.p)), l.p + 4) ELSE BlobFail(s)
           [] l.length = LZF -> ReadLzfLengths(s, read_length(s, l.p))
           [] OTHER -> BlobFail(s)
    ELSE IF Have(s, l.p, l.length) THEN Blob(Slice(s, l.p, l.length), l.p + l.length)
         ELSE BlobFail(s)

ReadBlobOf(s, l) ==
    IF ~l.ok THEN BlobFail(s)
    ELSE IF l.is_encoded
    THEN CASE l.length = INT8 ->
                IF Have(s, l.p, 1) THEN Blob(int_to_vec(I8(s, l.p)), l.p + 1) ELSE BlobFail(s)
           [] l.length = INT16 ->
                IF Have(s, l.p, 2) THEN Blob(int_to_vec(LEI16(s, l.p)), l.p + 2) ELSE BlobFail(s)
           [] l.length = INT32 ->
                IF Have(s, l.p, 4) THEN Blob(int_to_vec(LEI32(s, l.p)), l.p + 4) ELSE BlobFail(s)
           [] l.length = LZF -> ReadLzfLengths(s, read_length(s, l.p))
           [] OTHER -> BlobFail(s)                     \* panic!("Unknown encoding")
    ELSE IF Have(s, l.p, l.length) THEN Blob(Slice(s, l.p, l.length), l.p + l.length)
         ELSE BlobFail(s)

read_blob(s, p) == ReadBlobOf(s, read_length_with_encoding(s, p))

(***************************************************************************)
(* skip, skip_blob                                                         *)
(***************************************************************************)
\* skip drops the result of read_exact: a short read is not an error here, it
\* leaves the reader at the end of the stream.
skip(s, p, skip_bytes) == IF Have(s, p, skip_bytes) THEN p + skip_bytes ELSE AtEnd(s)

SkipFail(s) == [ok |-> FALSE, p |-> AtEnd(s)]

Skipped(p) == [ok |-> TRUE, p |-> p]

\* skip_blob with the LZF arm taking the second length (the uncompressed one)
SkipLzfReal(s, c, r) == IF ~c.ok \/ ~r.ok THEN SkipFail(s) ELSE Skipped(skip(s, r.p, r.length))

SkipLzf(s, c, r) == IF ~c.ok \/ ~r.ok THEN SkipFail(s) ELSE Skipped(skip(s, r.p, c.length))

SkipLzfLengths(s, c) == SkipLzf(s, c, read_length(s, c.p))

SkipBlobOf(s, l) ==
    IF ~l.ok THEN SkipFail(s)
    ELSE IF l.is_encoded
    THEN CASE l.length = INT8 -> Skipped(skip(s, l.p, 1))
           [] l.length = INT16 -> Skipped(skip(s, l.p, 2))
           [] l.length = INT32 -> Skipped(skip(s, l.p, 4))
           [] l.length = LZF -> SkipLzfLengths(s, read_length(s, l.p))
           [] OTHER -> SkipFail(s)                     \* panic!("Unknown encoding")
    ELSE Skipped(skip(s, l.p, l.length))

skip_blob(s, p) == SkipBlobOf(s, read_length_with_encoding(s, p))

(***************************************************************************)
(* The formatter calls (trait RdbParseFormatter), as records of one shape  *)
(***************************************************************************)
NoScore == [kind |-> "none", text |-> <<>>]

Ev(op, key, a, b, n, m, exp, score) ==
    [op |-> op, key |-> key, a |-> a, b |-> b, n |-> n, m |-> m, exp |-> exp, score |-> score]

start_rdb == Ev("start_rdb", <<>>, <<>>, <<>>, 0, 0, None, NoScore)
end_rdb == Ev("end_rdb", <<>>, <<>>, <<>>, 0, 0, None, NoScore)
checksum(bytes) == Ev("checksum", <<>>, bytes, <<>>, 0, 0, None, NoScore)
start_database(db) == Ev("start_database", <<>>, <<>>, <<>>, db, 0, None, NoScore)
end_database(db) == Ev("end_database", <<>>, <<>>, <<>>, db, 0, None, NoScore)
resizedb(db_size, expires_size) ==
    Ev("resizedb", <<>>, <<>>, <<>>, db_size, expires_size, None, NoScore)
aux_field(key, value) == Ev("aux_field", key, value, <<>>, 0, 0, None, NoScore)
set(key, value, expiry) == Ev("set", key, value, <<>>, 0, 0, expiry, NoScore)
start_hash(key, length, expiry) == Ev("start_hash", key, <<>>, <<>>, length, 0, expiry, NoScore)
end_hash(key) == Ev("end_hash", key, <<>>, <<>>, 0, 0, None, NoScore)
hash_element(key, field, value) == Ev("hash_element", key, field, value, 0, 0, None, NoScore)
start_set(key, card, expiry) == Ev("start_set", key, <<>>, <<>>, card, 0, expiry, NoScore)
end_set(key) == Ev("end_set", key, <<>>, <<>>, 0, 0, None, NoScore)
set_element(key, member) == Ev("set_element", key, member, <<>>, 0, 0, None, NoScore)
start_list(key, length, expiry) == Ev("start_list", key, <<>>, <<>>, length, 0, expiry, NoScore)
end_list(key) == Ev("end_list", key, <<>>, <<>>, 0, 0, None, NoScore)
list_element(key, value) == Ev("list_element", key, value, <<>>, 0, 0, None, NoScore)
start_sorted_set(key, length, expiry) ==
    Ev("start_sorted_set", key, <<>>, <<>>, length, 0, expiry, NoScore)
end_sorted_set(key) == Ev("end_sorted_set", key, <<>>, <<>>, 0, 0, None, NoScore)
sorted_set_element(key, score, member) ==
    Ev("sorted_set_element", key, member, <<>>, 0, 0, None, score)

(***************************************************************************)
(* The result of a reader of the input: ok, the position p reached and the *)
(* formatter calls ev made.                                                *)
(***************************************************************************)
Panic(s) == [ok |-> FALSE, p |-> AtEnd(s), ev |-> <<>>]

Done(p, ev) == [ok |-> TRUE, p |-> p, ev |-> ev]

\* the call e, then what r did
Cons(e, r) == [ok |-> r.ok, p |-> r.p, ev |-> <<e>> \o r.ev]

\* the calls ev, then what r did
After(ev, r) == [ok |-> r.ok, p |-> r.p, ev |-> ev \o r.ev]

\* start_X, the loop r, and end_X once the loop has finished
Bracket(first, r, last) ==
    [ok |-> r.ok, p |-> r.p, ev |-> <<first>> \o r.ev \o (IF r.ok THEN <<last>> ELSE <<>>)]

(***************************************************************************)
(* read_linked_list                                                        *)
(***************************************************************************)
RECURSIVE LinkedListLoop(_, _, _, _)
LinkedListItem(s, key, len, blob) ==
    IF ~blob.ok THEN Panic(s)
    ELSE Cons(list_element(key, blob.val), LinkedListLoop(s, blob.p, key, len - 1))

LinkedListLoop(s, p, key, len) ==
    IF len = 0 THEN Done(p, <<>>) ELSE LinkedListItem(s, key, len, read_blob(s, p))

LinkedListOf(s, key, exp, len) ==
    IF ~len.ok THEN Panic(s)
    ELSE Bracket(start_list(key, len.length, exp),
                 LinkedListLoop(s, len.p, key, len.length),
                 end_list(key))

read_linked_list(s, p, key, exp) == LinkedListOf(s, key, exp, read_length(s, p))

(***************************************************************************)
(* read_sorted_set                                                         *)
(***************************************************************************)
\* str::parse::<f64>: Some for a decimal text (sign, digits, one optional
\* point, at least one digit); the value is kept as its text.
IsDigit(c) == c >= 48 /\ c <= 57

IsNumberBody(t) ==
    /\ \E i \in 1..Len(t) : IsDigit(t[i])
    /\ \A i \in 1..Len(t) : IsDigit(t[i]) \/ t[i] = 46
    /\ Cardinality({i \in 1..Len(t) : t[i] = 46}) <= 1

IsFloatText(t) == IsNumberBody(IF Len(t) > 0 /\ t[1] = 45 THEN Tail(t) ELSE t)

Score(kind, text) == [kind |-> kind, text |-> text]

RECURSIVE SortedSetLoop(_, _, _, _)
SortedSetScoreSwapped(s, q, key, set_items, val, score_length) ==
    CASE score_length = 253 ->
           Cons(sorted_set_element(key, Score("nan", <<>>), val),
                SortedSetLoop(s, q, key, set_items - 1))
      [] score_length = 254 ->
           Cons(sorted_set_element(key, Score("neg_inf", <<>>), val),
                SortedSetLoop(s, q, key, set_items - 1))
      [] score_length = 255 ->
           Cons(sorted_set_element(key, Score("inf", <<>>), val),
                SortedSetLoop(s, q, key, set_items - 1))
      [] OTHER ->
           IF Have(s, q, score_length) /\ IsFloatText(Slice(s, q, score_length))
           THEN Cons(sorted_set_element(key, Score("num", Slice(s, q, score_length)), val),
                     SortedSetLoop(s, q + score_length, key, set_items - 1))
           ELSE Panic(s)

SortedSetScore(s, q, key, set_items, val, score_length) ==
    CASE score_length = 253 ->
           Cons(sorted_set_element(key, Score("nan", <<>>), val),
                SortedSetLoop(s, q, key, set_items - 1))
      [] score_length = 254 ->
           Cons(sorted_set_element(key, Score("inf", <<>>), val),
                SortedSetLoop(s, q, key, set_items - 1))
      [] score_length = 255 ->
           Cons(sorted_set_element(key, Score("neg_inf", <<>>), val),
                SortedSetLoop(s, q, key, set_items - 1))
      [] OTHER ->
           IF Have(s, q, score_length) /\ IsFloatText(Slice(s, q, score_length))
           THEN Cons(sorted_set_element(key, Score("num", Slice(s, q, score_length)), val),
                     SortedSetLoop(s, q + score_length, key, set_items - 1))
           ELSE Panic(s)

SortedSetItem(s, key, set_items, val) ==
    IF ~val.ok \/ ~Have(s, val.p, 1) THEN Panic(s)
    ELSE SortedSetScore(s, val.p + 1, key, set_items, val.val, s[val.p])

SortedSetLoop(s, p, key, set_items) ==
    IF set_items = 0 THEN Done(p, <<>>) ELSE SortedSetItem(s, key, set_items, read_blob(s, p))

SortedSetOf(s, key, exp, set_items) ==
    IF ~set_items.ok THEN Panic(s)
    ELSE Bracket(start_sorted_set(key, set_items.length, exp),
                 SortedSetLoop(s, set_items.p, key, set_items.length),
                 end_sorted_set(key))

read_sorted_set(s, p, key, exp) == SortedSetOf(s, key, exp, read_length(s, p))

(***************************************************************************)
(* read_hash                                                               *)
(***************************************************************************)
RECURSIVE HashLoop(_, _, _, _)
HashItem(s, key, hash_items, field, val) ==
    IF ~field.ok \/ ~val.ok THEN Panic(s)
    ELSE Cons(hash_element(key, field.val, val.val), HashLoop(s, val.p, key, hash_items - 1))

HashField(s, key, hash_items, field) ==
    HashItem(s, key, hash_items, field, read_blob(s, field.p))

HashLoop(s, p, key, hash_items) ==
    IF hash_items = 0 THEN Done(p, <<>>) ELSE HashField(s, key, hash_items, read_blob(s, p))

HashOf(s, key, exp, hash_items) ==
    IF ~hash_items.ok THEN Panic(s)
    ELSE Bracket(start_hash(key, hash_items.length, exp),
                 HashLoop(s, hash_items.p, key, hash_items.length),
                 end_hash(key))

read_hash(s, p, key, exp) == HashOf(s, key, exp, read_length(s, p))

(***************************************************************************)
(* Ziplists: read_ziplist_metadata, read_ziplist_entry,                    *)
(* read_ziplist_entries, read_list_ziplist, read_quicklist_ziplist.        *)
(* z is the blob, q the position of its MemReader.                         *)
(***************************************************************************)
\* zlbytes (u32), zltail (u32), zllen (u16): 10 bytes
read_ziplist_metadata(z, q) ==
    IF Have(z, q, 10) THEN [ok |-> TRUE, zllen |-> LE16(z, q + 8), q |-> q + 10]
    ELSE [ok |-> FALSE, zllen |-> 0, q |-> AtEnd(z)]

EntryFail(z) == [ok |-> FALSE, val |-> <<>>, q |-> AtEnd(z)]

\* DataType::String(rawval), as the bytes handed to list_element
EntryString(z, at, length) ==
    IF Have(z, at, length) THEN [ok |-> TRUE, val |-> Slice(z, at, length), q |-> at + length]
    ELSE EntryFail(z)

\* DataType::Number(number_value), as the bytes handed to list_element:
\* val.to_string()
EntryNumber(z, q, width, ok, number_value) ==
    IF ok THEN [ok |-> TRUE, val |-> int_to_vec(number_value), q |-> q + width]
    ELSE EntryFail(z)

\* 2. Read flag or number value; q is the position after the flag
EntryOfFlag(z, q, flag) ==
    CASE flag \div 64 = 0 -> EntryString(z, q, flag % 64)
      [] flag \div 64 = 1 ->
           IF Have(z, q, 1) THEN EntryString(z, q + 1, (flag % 64) * 256 + z[q])
           ELSE EntryFail(z)
      [] flag \div 64 = 2 ->
           IF Have(z, q, 4) THEN EntryString(z, q + 4, BE32(z, q)) ELSE EntryFail(z)
      [] flag \div 16 = 12 -> EntryNumber(z, q, 2, Have(z, q, 2), LEI16(z, q))
      [] flag \div 16 = 13 -> EntryNumber(z, q, 4, Have(z, q, 4), LEI32(z, q))
      [] flag \div 16 = 14 -> EntryNumber(z, q, 8, Have(z, q, 8), LEI64(z, q))
      [] flag = 240 ->
           \* (b0 << 16) ^ (b1 << 8) ^ b2 of bytes widened to i64
           EntryNumber(z, q, 3, Have(z, q, 3), z[q] * 65536 + z[q + 1] * 256 + z[q + 2])
      [] flag = 254 -> EntryNumber(z, q, 1, Have(z, q, 1), z[q])     \* read_byte() as i64
      [] OTHER -> EntryNumber(z, q, 0, TRUE, (flag % 16) - 1)

\* 1. 1 or 5 bytes length of previous entry
read_ziplist_entry(z, q) ==
    IF ~Have(z, q, 1) THEN EntryFail(z)
    ELSE IF z[q] = 254
    THEN (IF Have(z, q + 1, 5) THEN EntryOfFlag(z, q + 6, z[q + 5]) ELSE EntryFail(z))
    ELSE (IF Have(z, q + 1, 1) THEN EntryOfFlag(z, q + 2, z[q + 1]) ELSE EntryFail(z))

\* The result of a reader of a blob: ok, the position q in the blob, ev.
RECURSIVE read_ziplist_entries(_, _, _, _)
ZiplistEntry(z, key, zllen, entry) ==
    IF ~entry.ok THEN [ok |-> FALSE, q |-> entry.q, ev |-> <<>>]
    ELSE [read_ziplist_entries(z, entry.q, key, zllen - 1)
             EXCEPT !.ev = <<list_element(key, entry.val)>> \o @]

read_ziplist_entries(z, q, key, zllen) ==
    IF zllen = 0 THEN [ok |-> TRUE, q |-> q, ev |-> <<>>]
    ELSE ZiplistEntry(z, key, zllen, read_ziplist_entry(z, q))

\* assert!(reader.read_byte().unwrap() == 0xFF)
Terminated(z, q) == Have(z, q, 1) /\ z[q] = 255

\* the entries read from the blob z, then the terminator check; the input
\* reader is at p, after the blob
ZiplistEnd(z, p, list) == [ok |-> list.ok /\ Terminated(z, list.q), p |-> p, ev |-> list.ev]

ListZiplistOf(s, key, exp, ziplist, meta) ==
    IF ~meta.ok THEN Panic(s)
    ELSE Bracket(start_list(key, meta.zllen, exp),
                 ZiplistEnd(ziplist.val, ziplist.p,
                            read_ziplist_entries(ziplist.val, meta.q, key, meta.zllen)),
                 end_list(key))

ListZiplistBlob(s, key, exp, ziplist) ==
    IF ~ziplist.ok THEN Panic(s)
    ELSE ListZiplistOf(s, key, exp, ziplist, read_ziplist_metadata(ziplist.val, 1))

read_list_ziplist(s, p, key, exp) == ListZiplistBlob(s, key, exp, read_blob(s, p))

QuicklistZiplistOf(s, key, ziplist, meta) ==
    IF ~meta.ok THEN Panic(s)
    ELSE ZiplistEnd(ziplist.val, ziplist.p,
                    read_ziplist_entries(ziplist.val, meta.q, key, meta.zllen))

QuicklistZiplistBlob(s, key, ziplist) ==
    IF ~ziplist.ok THEN Panic(s)
    ELSE QuicklistZiplistOf(s, key, ziplist, read_ziplist_metadata(ziplist.val, 1))

read_quicklist_ziplist(s, p, key) == QuicklistZiplistBlob(s, key, read_blob(s, p))

(***************************************************************************)
(* read_quicklist                                                          *)
(***************************************************************************)
RECURSIVE QuicklistLoop(_, _, _, _)
QuicklistItem(s, key, len, zl) ==
    IF ~zl.ok THEN zl ELSE After(zl.ev, QuicklistLoop(s, zl.p, key, len - 1))

QuicklistLoop(s, p, key, len) ==
    IF len = 0 THEN Done(p, <<>>)
    ELSE QuicklistItem(s, key, len, read_quicklist_ziplist(s, p, key))

QuicklistOf(s, key, exp, len) ==
    IF ~len.ok THEN Panic(s)
    ELSE Bracket(start_set(key, 0, exp),
                 QuicklistLoop(s, len.p, key, len.length),
                 end_set(key))

read_quicklist(s, p, key, exp) == QuicklistOf(s, key, exp, read_length(s, p))

(***************************************************************************)
(* read_zipmap_entry, read_hash_zipmap                                     *)
(***************************************************************************)
read_zipmap_entry(next_byte, z, q) ==
    CASE next_byte = 253 ->
           IF Have(z, q, 4) THEN EntryString(z, q + 4, LE32(z, q)) ELSE EntryFail(z)
      [] next_byte \in {254, 255} -> EntryFail(z)     \* panic!("Invalid length value")
      [] OTHER -> EntryString(z, q, next_byte)

\* usize -1: the count is unknown and the loop runs to the 0xFF terminator
Unknown == -1

\* The loop of read_hash_zipmap: the hash vector it builds, never handed to
\* the formatter.
RECURSIVE ZipmapLoop(_, _, _, _)
ZipmapCount(z, q, length, hash) ==
    IF length = 0 THEN [ok |-> Terminated(z, q), hash |-> hash]
    ELSE ZipmapLoop(z, q, length, hash)

ZipmapValue(z, length, hash, key, value) ==
    IF ~value.ok THEN [ok |-> FALSE, hash |-> hash]
    ELSE ZipmapCount(z, value.q, IF length > 0 THEN length - 1 ELSE length,
                     hash \o <<key.val, value.val>>)

ZipmapKey(z, length, hash, key) ==
    IF ~key.ok \/ ~Have(z, key.q, 2) THEN [ok |-> FALSE, hash |-> hash]
    ELSE ZipmapValue(z, length, hash, key, read_zipmap_entry(z[key.q], z, key.q + 2))

ZipmapLoop(z, q, length, hash) ==
    IF ~Have(z, q, 1) THEN [ok |-> FALSE, hash |-> hash]
    ELSE IF z[q] = 255 THEN [ok |-> TRUE, hash |-> hash]
    ELSE ZipmapKey(z, length, hash, read_zipmap_entry(z[q], z, q + 1))

HashZipmapEnd(s, p, r) == IF r.ok THEN Done(p, <<>>) ELSE Panic(s)

HashZipmapBlob(s, zipmap) ==
    IF ~zipmap.ok \/ ~Have(zipmap.val, 1, 1) THEN Panic(s)
    ELSE HashZipmapEnd(s, zipmap.p,
                       ZipmapLoop(zipmap.val, 2,
                                  IF zipmap.val[1] <= 254 THEN zipmap.val[1] ELSE Unknown,
                                  <<>>))

read_hash_zipmap(s, p) == HashZipmapBlob(s, read_blob(s, p))

(***************************************************************************)
(* read_set_intset                                                         *)
(***************************************************************************)
RECURSIVE IntsetLoop(_, _, _, _, _, _)
IntsetLoop(s, z, q, key, byte_size, n) ==
    IF n = 0 THEN Done(0, <<>>)
    ELSE IF byte_size \notin {2, 4, 8} \/ ~Have(z, q, byte_size) THEN Panic(s)
    ELSE Cons(set_element(key, int_to_vec(LES(z, q, byte_size))),
              IntsetLoop(s, z, q + byte_size, key, byte_size, n - 1))

\* the input reader is at p, after the blob
IntsetEnd(p, r) == [r EXCEPT !.p = IF r.ok THEN p ELSE @]

SetIntsetBlob(s, key, exp, intset) ==
    IF ~intset.ok \/ ~Have(intset.val, 1, 8) THEN Panic(s)
    ELSE Bracket(start_set(key, LE32(intset.val, 5), exp),
                 IntsetEnd(intset.p,
                           IntsetLoop(s, intset.val, 9, key, LE32(intset.val, 1),
                                      LE32(intset.val, 5))),
                 end_set(key))

read_set_intset(s, p, key, exp) == SetIntsetBlob(s, key, exp, read_blob(s, p))

(***************************************************************************)
(* read_type                                                               *)
(***************************************************************************)
StringOf(s, key, exp, val) ==
    IF val.ok THEN Done(val.p, <<set(key, val.val, exp)>>) ELSE Panic(s)

read_type(s, p, key, value_type, exp) ==
    CASE value_type = types_STRING -> StringOf(s, key, exp, read_blob(s, p))
      [] value_type = types_LIST -> read_linked_list(s, p, key, exp)
      [] value_type = types_SET -> read_linked_list(s, p, key, exp)
      [] value_type = types_ZSET -> read_sorted_set(s, p, key, exp)
      [] value_type = types_HASH -> read_hash(s, p, key, exp)
      [] value_type = types_HASH_ZIPMAP -> read_hash_zipmap(s, p)
      [] value_type = types_LIST_ZIPLIST -> read_list_ziplist(s, p, key, exp)
      [] value_type = types_SET_INTSET -> read_set_intset(s, p, key, exp)
      [] value_type = types_ZSET_ZIPLIST -> read_list_ziplist(s, p, key, exp)
      [] value_type = types_HASH_ZIPLIST -> read_list_ziplist(s, p, key, exp)
      [] value_type = types_LIST_QUICKLIST -> read_quicklist(s, p, key, exp)
      [] OTHER -> Panic(s)                    \* panic!("Value Type not implemented")

(***************************************************************************)
(* skip_object, skip_key_and_object                                        *)
(***************************************************************************)
RECURSIVE SkipBlobs(_, _, _)
SkipNext(s, blobs_to_skip, b) ==
    IF ~b.ok THEN b ELSE SkipBlobs(s, b.p, blobs_to_skip - 1)

\* for _ in (0..blobs_to_skip) { self.skip_blob() }
SkipBlobs(s, p, blobs_to_skip) ==
    IF blobs_to_skip = 0 THEN Skipped(p) ELSE SkipNext(s, blobs_to_skip, skip_blob(s, p))

SkipCounted(s, n, factor) ==
    IF n.ok THEN SkipBlobs(s, n.p, n.length * factor) ELSE SkipFail(s)

skip_object(s, p, enc_type) ==
    CASE enc_type \in {types_STRING, types_HASH_ZIPMAP, types_LIST_ZIPLIST, types_SET_INTSET,
                       types_ZSET_ZIPLIST, types_HASH_ZIPLIST} -> SkipBlobs(s, p, 1)
      [] enc_type \in {types_LIST, types_SET} -> SkipCounted(s, read_length(s, p), 1)
      [] enc_type \in {types_ZSET, types_HASH} -> SkipCounted(s, read_length(s, p), 2)
      [] OTHER -> SkipFail(s)                 \* panic!("Unknown encoding type")

SkipObjectAfter(s, enc_type, k) == IF ~k.ok THEN k ELSE skip_object(s, k.p, enc_type)

skip_key_and_object(s, p, enc_type) == SkipObjectAfter(s, enc_type, skip_blob(s, p))

(***************************************************************************)
(* StrictFilter (AllFilter behaves as StrictFilter::new())                 *)
(*   databases: the ids added; types: the Types added; keys: None or       *)
(*   Some(re), a regex being the set of keys it matches.                   *)
(***************************************************************************)
Type_from_encoding(enc_type) ==
    CASE enc_type = types_STRING -> "String"
      [] enc_type \in {types_HASH, types_HASH_ZIPMAP, types_HASH_ZIPLIST} -> "Hash"
      [] enc_type \in {types_LIST, types_LIST_ZIPLIST} -> "List"
      [] enc_type \in {types_SET, types_SET_INTSET} -> "Set"
      [] enc_type \in {types_ZSET, types_ZSET_ZIPLIST} -> "SortedSet"
      [] OTHER -> "panic"                      \* panic!("Unknown encoding type")

matches_db(f, db) == IF f.databases = {} THEN TRUE ELSE db \in f.databases

\* ok = FALSE: Type::from_encoding panicked
matches_type(f, enc_type) ==
    IF f.types = {} THEN [ok |-> TRUE, res |-> TRUE]
    ELSE [ok |-> Type_from_encoding(enc_type) # "panic",
          res |-> Type_from_encoding(enc_type) \in f.types]

matches_key(f, key) == IF f.keys = None THEN TRUE ELSE key \in f.keys[1]

(***************************************************************************)
(* verify_magic, verify_version                                            *)
(***************************************************************************)
verify_magic(s, p) == \A i \in 1..5 : s[p + i - 1] = RDB_MAGIC[i]

\* (version[i] - 48) on u8, widened to u32
Digit(b) == (b - 48) % 256

Version(s, p) ==
    Digit(s[p]) * 1000 + Digit(s[p + 1]) * 100 + Digit(s[p + 2]) * 10 + Digit(s[p + 3])

verify_version(s, p) ==
    Version(s, p) >= SUPPORTED_MINIMUM /\ Version(s, p) <= SUPPORTED_MAXIMUM

(***************************************************************************)
(* The formatters of formatter/*.rs.  `out` is the sequence of the writes  *)
(* made on the output: a write_str of a literal, or a write_all of bytes.  *)
(* A format! of a literal and a number is written as its parts.  Every     *)
(* write on stdout succeeds.                                               *)
(***************************************************************************)
Lit(text) == [lit |-> text, bytes |-> <<>>]
Bytes(b) == [lit |-> "", bytes |-> b]

write(st, pieces) == [st EXCEPT !.out = @ \o pieces]

\* f64::to_string of a score kept as its decimal text: no leading zeros, no
\* trailing zeros after the point, no point without digits after it
RECURSIVE NoLeadingZeros(_)
NoLeadingZeros(t) ==
    IF t = <<>> THEN <<48>>
    ELSE IF t[1] = 48 /\ Len(t) > 1 THEN NoLeadingZeros(Tail(t))
    ELSE t

RECURSIVE NoTrailingZeros(_)
NoTrailingZeros(t) ==
    IF t = <<>> THEN <<>>
    ELSE IF t[Len(t)] = 48 THEN NoTrailingZeros(SubSeq(t, 1, Len(t) - 1))
    ELSE <<46>> \o t

PointAt(t) == IF \E i \in 1..Len(t) : t[i] = 46
              THEN CHOOSE i \in 1..Len(t) : t[i] = 46
              ELSE Len(t) + 1

Unsigned_to_string(t) ==
    NoLeadingZeros(SubSeq(t, 1, PointAt(t) - 1))
    \o NoTrailingZeros(SubSeq(t, PointAt(t) + 1, Len(t)))

f64_to_string(score) ==
    CASE score.kind = "nan" -> <<78, 97, 78>>                     \* NaN
      [] score.kind = "inf" -> <<105, 110, 102>>                  \* inf
      [] score.kind = "neg_inf" -> <<45, 105, 110, 102>>          \* -inf
      [] score.kind = "num" ->
           IF score.text # <<>> /\ score.text[1] = 45
           THEN <<45>> \o Unsigned_to_string(Tail(score.text))
           ELSE Unsigned_to_string(score.text)
      [] OTHER -> <<>>

HexDigit(n) == IF n < 10 THEN 48 + n ELSE 87 + n

(***************************************************************************)
(* formatter/protocol.rs                                                   *)
(***************************************************************************)
Protocol_new == [out |-> <<>>, last_expiry |-> None]

RECURSIVE EmitArgs(_)
EmitArgs(args) ==
    IF args = <<>> THEN <<>>
    ELSE <<Lit("$"), Bytes(NatDigits(Len(Head(args)))), Lit("\r\n"), Bytes(Head(args)),
           Lit("\r\n")>> \o EmitArgs(Tail(args))

emit(st, args) ==
    write(st, <<Lit("*"), Bytes(NatDigits(Len(args))), Lit("\r\n")>> \o EmitArgs(args))

pre_expire(st, expiry) == [st EXCEPT !.last_expiry = expiry]

post_expire_kept(st, key) ==
    IF st.last_expiry # None
    THEN emit(st, <<<<80, 69, 88, 80, 73, 82, 69, 65, 84>>, key,
                    NatDigits(st.last_expiry[1])>>)
    ELSE st

post_expire(st, key) ==
    IF st.last_expiry # None
    THEN [emit(st, <<<<80, 69, 88, 80, 73, 82, 69, 65, 84>>, key,      \* PEXPIREAT
                     NatDigits(st.last_expiry[1])>>)
             EXCEPT !.last_expiry = None]
    ELSE st

Protocol_Formatter(st, e) ==
    CASE e.op = "start_database" ->
           emit(st, <<<<83, 69, 76, 69, 67, 84>>, NatDigits(e.n)>>)           \* SELECT
      [] e.op = "set" ->
           post_expire(emit(pre_expire(st, e.exp), <<<<83, 69, 84>>, e.key, e.a>>),   \* SET
                       e.key)
      [] e.op \in {"start_hash", "start_set", "start_list", "start_sorted_set"} ->
           pre_expire(st, e.exp)
      [] e.op \in {"end_hash", "end_set", "end_list", "end_sorted_set"} ->
           post_expire(st, e.key)
      [] e.op = "hash_element" -> emit(st, <<<<72, 83, 69, 84>>, e.key, e.a, e.b>>)   \* HSET
      [] e.op = "set_element" -> emit(st, <<<<83, 65, 68, 68>>, e.key, e.a>>)         \* SADD
      [] e.op = "list_element" -> emit(st, <<<<82, 80, 85, 83, 72>>, e.key, e.a>>)    \* RPUSH
      [] e.op = "sorted_set_element" ->
           emit(st, <<<<90, 65, 68, 68>>, e.key, f64_to_string(e.score), e.a>>)       \* ZADD
      [] OTHER -> st

(***************************************************************************)
(* formatter/plain.rs                                                      *)
(***************************************************************************)
Plain_new == [out |-> <<>>, dbnum |-> 0, index |-> 0]

write_line_start(st) == write(st, <<Lit("db="), Bytes(NatDigits(st.dbnum)), Lit(" ")>>)

RECURSIVE hex_encode(_)
hex_encode(b) ==
    IF b = <<>> THEN <<>>
    ELSE <<HexDigit(Head(b) \div 16), HexDigit(Head(b) % 16)>> \o hex_encode(Tail(b))

Plain_Formatter(st, e) ==
    CASE e.op = "checksum" ->
           write(st, <<Lit("checksum "), Bytes(hex_encode(e.a)), Lit("\n")>>)
      [] e.op = "start_database" -> [st EXCEPT !.dbnum = e.n]
      [] e.op = "set" ->
           write(write_line_start(st), <<Bytes(e.key), Lit(" -> "), Bytes(e.a), Lit("\n")>>)
      [] e.op = "aux_field" ->
           write(st, <<Lit("aux "), Bytes(e.key), Lit(" -> "), Bytes(e.a), Lit("\n")>>)
      [] e.op = "hash_element" ->
           write(write_line_start(st),
                 <<Bytes(e.key), Lit(" . "), Bytes(e.a), Lit(" -> "), Bytes(e.b), Lit("\n")>>)
      [] e.op = "set_element" ->
           write(write_line_start(st),
                 <<Bytes(e.key), Lit(" { "), Bytes(e.a), Lit(" } "), Lit("\n")>>)
      [] e.op \in {"start_list", "start_sorted_set"} -> [st EXCEPT !.index = 0]
      [] e.op = "list_element" ->
           [write(write_line_start(st),
                  <<Bytes(e.key), Lit("["), Bytes(NatDigits(st.index)), Lit("]"), Lit(" -> "),
                    Bytes(e.a), Lit("\n")>>)
               EXCEPT !.index = @ + 1]
      [] e.op = "sorted_set_element" ->
           [write(write_line_start(st),
                  <<Bytes(e.key), Lit("["), Bytes(NatDigits(st.index)), Lit("]"), Lit(" -> {"),
                    Bytes(e.a), Lit(", score="), Bytes(f64_to_string(e.score)), Lit("}\n")>>)
               EXCEPT !.index = @ + 1]
      [] OTHER -> st

(***************************************************************************)
(* formatter/json.rs                                                       *)
(***************************************************************************)
JSON_new ==
    [out |-> <<>>, is_first_db |-> TRUE, has_databases |-> FALSE,
     is_first_key_in_db |-> TRUE, elements_in_key |-> 0, element_index |-> 0]

\* serde_json's escapes of one character; a byte that is no ASCII character
\* becomes U+FFFD (from_utf8_lossy of a byte outside a UTF-8 sequence)
EscapeByte(c) ==
    CASE c = 34 -> <<92, 34>>
      [] c = 92 -> <<92, 92>>
      [] c = 8 -> <<92, 98>>
      [] c = 9 -> <<92, 116>>
      [] c = 10 -> <<92, 110>>
      [] c = 12 -> <<92, 102>>
      [] c = 13 -> <<92, 114>>
      [] c < 32 -> <<92, 117, 48, 48, HexDigit(c \div 16), HexDigit(c % 16)>>
      [] c >= 128 -> <<239, 191, 189>>
      [] OTHER -> <<c>>

RECURSIVE Escaped(_)
Escaped(value) == IF value = <<>> THEN <<>> ELSE EscapeByte(Head(value)) \o Escaped(Tail(value))

encode_to_ascii(value) == <<34>> \o Escaped(value) \o <<34>>

start_key_no_reset(st, length) ==
    [(IF ~st.is_first_key_in_db THEN write(st, <<Lit(",")>>) ELSE st)
        EXCEPT !.is_first_key_in_db = FALSE, !.elements_in_key = length]

start_key(st, length) ==
    [(IF ~st.is_first_key_in_db THEN write(st, <<Lit(",")>>) ELSE st)
        EXCEPT !.is_first_key_in_db = FALSE, !.elements_in_key = length, !.element_index = 0]

write_comma(st) ==
    [(IF st.element_index > 0 THEN write(st, <<Lit(",")>>) ELSE st)
        EXCEPT !.element_index = @ + 1]

write_key(st, key) == write(st, <<Bytes(encode_to_ascii(key))>>)

write_value(st, value) == write(st, <<Bytes(encode_to_ascii(value))>>)

JSON_end_rdb_always(st) == write(write(st, <<Lit("}")>>), <<Lit("]\n")>>)

JSON_end_rdb(st) ==
    write(IF st.has_databases THEN write(st, <<Lit("}")>>) ELSE st, <<Lit("]\n")>>)

JSON_start_database(st) ==
    [write(IF ~st.is_first_db THEN write(st, <<Lit("},")>>) ELSE st, <<Lit("{")>>)
        EXCEPT !.is_first_db = FALSE, !.has_databases = TRUE, !.is_first_key_in_db = TRUE]

JSON_Formatter(st, e) ==
    CASE e.op = "start_rdb" -> write(st, <<Lit("[")>>)
      [] e.op = "end_rdb" -> JSON_end_rdb(st)
      [] e.op = "start_database" -> JSON_start_database(st)
      [] e.op = "set" ->
           write_value(write(write_key(start_key(st, 0), e.key), <<Lit(":")>>), e.a)
      [] e.op \in {"start_hash", "start_sorted_set"} ->
           write(write_key(start_key(st, e.n), e.key), <<Lit(":{")>>)
      [] e.op \in {"end_hash", "end_sorted_set"} -> write(st, <<Lit("}")>>)
      [] e.op = "hash_element" ->
           write_value(write(write_key(write_comma(st), e.a), <<Lit(":")>>), e.b)
      [] e.op \in {"start_set", "start_list"} ->
           write(write_key(start_key(st, e.n), e.key), <<Lit(":[")>>)
      [] e.op \in {"end_set", "end_list"} -> write(st, <<Lit("]")>>)
      [] e.op \in {"set_element", "list_element"} -> write_value(write_comma(st), e.a)
      [] e.op = "sorted_set_element" ->
           write_value(write(write_key(write_comma(st), e.a), <<Lit(":")>>),
                       f64_to_string(e.score))
      [] OTHER -> st

\* The calls ev, made in order on each formatter.
RECURSIVE Protocol_calls(_, _)
Protocol_calls(st, ev) ==
    IF ev = <<>> THEN st ELSE Protocol_calls(Protocol_Formatter(st, Head(ev)), Tail(ev))

RECURSIVE Plain_calls(_, _)
Plain_calls(st, ev) ==
    IF ev = <<>> THEN st ELSE Plain_calls(Plain_Formatter(st, Head(ev)), Tail(ev))

RECURSIVE JSON_calls(_, _)
JSON_calls(st, ev) ==
    IF ev = <<>> THEN st ELSE JSON_calls(JSON_Formatter(st, Head(ev)), Tail(ev))

\* self.formatter.f(..) for each call of ev, whichever formatter it is
Deliver(ev) ==
    /\ formatter' = formatter \o ev
    /\ protocol' = Protocol_calls(protocol, ev)
    /\ plain' = Plain_calls(plain, ev)
    /\ json' = JSON_calls(json, ev)

(***************************************************************************)
(* RdbParser::parse: the header check, then one action per arm of the      *)
(* opcode match.  Each loop action appends one entry to trace:             *)
(*   op: the opcode, at: its position, end: the position after the record, *)
(*   db: last_database after it, exp: the latch before it,                 *)
(*   from/to: the formatter calls it made are formatter[from+1..to],       *)
(*   key: the key blob read (<<>> if none was), ok: FALSE if it panicked.  *)
(***************************************************************************)
Entry(op, end, db, to, key, ok) ==
    [op |-> op, at |-> pos, end |-> end, db |-> db, exp |-> last_expiretime,
     from |-> Len(formatter), to |-> to, key |-> key, ok |-> ok]

\* One iteration of the loop: the calls ev were made, the reader is at p.
\* Every call is a statement `self.formatter.f(..);`: the RdbResult it returns
\* is dropped, so formatter_err is not read.
Step(op, ok, p, ev, db, exp, key) ==
    /\ pos' = p
    /\ Deliver(ev)
    /\ last_database' = db
    /\ last_expiretime' = exp
    /\ pc' = IF ~ok THEN "panic" ELSE IF op = EOF THEN "done" ELSE "loop"
    /\ trace' = Append(trace, Entry(op, p, db, Len(formatter) + Len(ev), key, ok))
    /\ UNCHANGED <<input, filter, formatter_err, progress_bar, writer>>

\* An iteration that panicked in a read of the input.
StepPanic(op, key) == Step(op, FALSE, AtEnd(input), <<>>, last_database, last_expiretime, key)

VerifyHeader ==
    /\ pc = "start"
    /\ IF Have(input, pos, 9) /\ verify_magic(input, pos) /\ verify_version(input, pos + 5)
       THEN /\ pc' = "loop"
            /\ pos' = pos + 9
            /\ Deliver(<<start_rdb>>)
       ELSE /\ pc' = "panic"
            /\ pos' = skip(input, pos, 9)
            /\ Deliver(<<>>)
    /\ UNCHANGED <<input, filter, last_expiretime, last_database, trace, formatter_err,
                   progress_bar, writer>>

NextOp(op) == pc = "loop" /\ Have(input, pos, 1) /\ input[pos] = op

\* self.input.read_byte().unwrap() at the end of the stream
ReadOpcodeFails ==
    /\ pc = "loop"
    /\ ~Have(input, pos, 1)
    /\ pc' = "panic"
    /\ UNCHANGED <<input, pos, filter, formatter, last_expiretime, last_database, trace,
                   formatter_err, protocol, plain, json, progress_bar, writer>>

SelectDbOfLatchCleared(db) ==
    IF ~db.ok THEN StepPanic(SELECTDB, <<>>)
    ELSE Step(SELECTDB, TRUE, db.p,
              IF matches_db(filter, db.length) THEN <<start_database(db.length)>> ELSE <<>>,
              db.length, None, <<>>)

SelectDbOf(db) ==
    IF ~db.ok THEN StepPanic(SELECTDB, <<>>)
    ELSE Step(SELECTDB, TRUE, db.p,
              IF matches_db(filter, db.length) THEN <<start_database(db.length)>> ELSE <<>>,
              db.length, last_expiretime, <<>>)

SelectDb == NextOp(SELECTDB) /\ SelectDbOf(read_length(input, pos + 1))

\* Eof with the checksum handed over before end_rdb
EofChecksumFirst ==
    /\ NextOp(EOF)
    /\ Step(EOF, TRUE, AtEnd(input),
            <<end_database(last_database), checksum(SubSeq(input, pos + 1, Len(input))),
              end_rdb>>,
            last_database, last_expiretime, <<>>)

\* Eof with the first byte after the opcode left out of the checksum
EofChecksumShort ==
    /\ NextOp(EOF)
    /\ Step(EOF, TRUE, AtEnd(input),
            <<end_database(last_database), end_rdb,
              checksum(SubSeq(input, pos + 2, Len(input)))>>,
            last_database, last_expiretime, <<>>)

\* read_to_end: every byte left, none at the end of the stream
Eof ==
    /\ NextOp(EOF)
    /\ Step(EOF, TRUE, AtEnd(input),
            <<end_database(last_database), end_rdb,
              checksum(SubSeq(input, pos + 1, Len(input)))>>,
            last_database, last_expiretime, <<>>)

ExpireTimeMs ==
    /\ NextOp(EXPIRETIME_MS)
    /\ IF Have(input, pos + 1, 8)
       THEN Step(EXPIRETIME_MS, TRUE, pos + 9, <<>>, last_database,
                 Some(LE64(input, pos + 1)), <<>>)
       ELSE StepPanic(EXPIRETIME_MS, <<>>)

ExpireTime ==
    /\ NextOp(EXPIRETIME)
    /\ IF Have(input, pos + 1, 4)
       THEN Step(EXPIRETIME, TRUE, pos + 5, <<>>, last_database,
                 Some(BE32(input, pos + 1) * 1000), <<>>)
       ELSE StepPanic(EXPIRETIME, <<>>)

ResizeDbOf(db_size, expires_size) ==
    IF db_size.ok /\ expires_size.ok
    THEN Step(RESIZEDB, TRUE, expires_size.p, <<resizedb(db_size.length, expires_size.length)>>,
              last_database, last_expiretime, <<>>)
    ELSE StepPanic(RESIZEDB, <<>>)

ResizeDbSize(db_size) == ResizeDbOf(db_size, read_length(input, db_size.p))

ResizeDb == NextOp(RESIZEDB) /\ ResizeDbSize(read_length(input, pos + 1))

AuxOf(auxkey, auxval) ==
    IF auxkey.ok /\ auxval.ok
    THEN Step(AUX, TRUE, auxval.p, <<aux_field(auxkey.val, auxval.val)>>,
              last_database, last_expiretime, <<>>)
    ELSE StepPanic(AUX, <<>>)

AuxKey(auxkey) == AuxOf(auxkey, read_blob(input, auxkey.p))

Aux == NextOp(AUX) /\ AuxKey(read_blob(input, pos + 1))

\* The key record was read or skipped with result r; self.last_expiretime = None
\* the key arm without the assignment of line 407
KeyDoneLatchKept(next_op, key, r, ev) ==
    Step(next_op, r.ok, r.p, ev, last_database, last_expiretime, key)

KeyDone(next_op, key, r, ev) ==
    IF r.ok THEN Step(next_op, TRUE, r.p, ev, last_database, None, key)
    ELSE Step(next_op, FALSE, r.p, ev, last_database, last_expiretime, key)

KeyRead(next_op, key, r) == KeyDone(next_op, key, r, r.ev)

\* the key arm without the matches_key conjunct of line 398
KeyOfIgnoringKey(next_op, key, mt) ==
    IF ~key.ok \/ ~mt.ok THEN StepPanic(next_op, key.val)
    ELSE IF mt.res
    THEN KeyRead(next_op, key.val, read_type(input, key.p, key.val, next_op, last_expiretime))
    ELSE KeyDone(next_op, key.val, skip_object(input, key.p, next_op), <<>>)

KeyOf(next_op, key, mt) ==
    IF ~key.ok \/ ~mt.ok THEN StepPanic(next_op, key.val)
    ELSE IF mt.res /\ matches_key(filter, key.val)
    THEN KeyRead(next_op, key.val, read_type(input, key.p, key.val, next_op, last_expiretime))
    ELSE KeyDone(next_op, key.val, skip_object(input, key.p, next_op), <<>>)

\* The `_` arm: a key record of encoding type next_op.
KeyRecord ==
    /\ pc = "loop"
    /\ Have(input, pos, 1)
    /\ input[pos] \notin {SELECTDB, EOF, EXPIRETIME_MS, EXPIRETIME, RESIZEDB, AUX}
    /\ IF matches_db(filter, last_database)
       THEN KeyOf(input[pos], read_blob(input, pos + 1), matches_type(filter, input[pos]))
       ELSE KeyDone(input[pos], <<>>, skip_key_and_object(input, pos + 1, input[pos]), <<>>)

Next ==
    \/ VerifyHeader
    \/ ReadOpcodeFails
    \/ SelectDb
    \/ Eof
    \/ ExpireTimeMs
    \/ ExpireTime
    \/ ResizeDb
    \/ Aux
    \/ KeyRecord

(***************************************************************************)
(* The inputs: snapshot files built from records, and filters.             *)
(***************************************************************************)
MaxRecords == 3       \* records of CoreRecords in a file body
MaxPrefix == 1        \* records of CoreRecords before a record of KeyZoo
MaxFailAt == 2        \* the latest formatter call that may fail
MaxListLen == 2       \* values in a logical list

Ka == <<1, 97>>       \* the key blob "a"
Kk == <<1, 107>>      \* the key blob "k"

\* zlbytes, zltail (not interpreted by the reader) and zllen = n
Zl(n) == <<0, 0, 0, 0, 0, 0, 0, 0, n, 0>>

ZlX == Zl(1) \o <<0, 1, 120, 255>>                    \* ["x"]
ZlXInt == Zl(2) \o <<0, 1, 120, 3, 243, 255>>         \* ["x", 2]
ZlPair == Zl(2) \o <<0, 1, 109, 3, 1, 49, 255>>       \* ["m", "1"]
ZlNoEnd == Zl(1) \o <<0, 1, 120>>                     \* ["x"], terminator missing

AsBlob(b) == <<Len(b)>> \o b

\* Records that may appear anywhere in a body, in any combination.
CoreRecords == {
    <<SELECTDB, 0>>,
    <<SELECTDB, 1>>,
    <<EXPIRETIME_MS, 5, 1, 0, 0, 0, 0, 0, 0>>,        \* 261 ms
    <<EXPIRETIME, 0, 0, 0, 2>>,                       \* 2 s
    <<RESIZEDB, 2, 1>>,
    <<AUX, 1, 118, 192, 7>>,                          \* "v" -> INT8 7
    <<types_STRING>> \o Ka \o <<1, 118>>,             \* a -> "v"
    <<types_LIST>> \o Kk \o <<1, 1, 120>> }           \* k -> ["x"]

\* Key records of every encoding type and blob form; one per file.
KeyZoo == {
    <<types_STRING>> \o Kk \o <<192, 214>>,                       \* INT8 -42
    <<types_STRING>> \o Kk \o <<193, 254, 255>>,                  \* INT16 -2
    <<types_STRING>> \o Kk \o <<194, 1, 0, 1, 0>>,                \* INT32 65537
    <<types_STRING>> \o Kk \o <<195, 4, 5, 0, 97, 64, 0>>,        \* LZF "aaaaa"
    <<types_STRING, 64, 1, 107, 1, 118>>,                         \* key length in 14 bits
    <<types_STRING, 128, 0, 0, 0, 1, 107, 1, 118>>,               \* key length in 32 bits
    <<types_STRING, 192, 7, 1, 118>>,                             \* key INT8 7
    <<types_STRING>> \o Kk \o <<0>>,                              \* empty value
    <<types_LIST>> \o Kk \o <<0>>,
    <<types_LIST>> \o Kk \o <<2, 1, 120, 192, 5>>,                \* ["x", INT8 5]
    <<types_SET>> \o Kk \o <<1, 1, 120>>,
    <<types_SET>> \o Kk \o <<2, 193, 1, 1, 1, 121>>,              \* {INT16 257, "y"}
    <<types_ZSET>> \o Kk \o <<0>>,
    <<types_ZSET>> \o Kk \o <<1, 1, 109, 1, 49>>,                 \* m: "1"
    <<types_ZSET>> \o Kk \o <<2, 1, 109, 3, 49, 46, 53, 1, 110, 2, 45, 50>>,  \* m: "1.5", n: "-2"
    <<types_ZSET>> \o Kk \o <<1, 1, 109, 253>>,                   \* m: NaN
    <<types_ZSET>> \o Kk \o <<1, 1, 109, 254>>,                   \* m: +inf
    <<types_ZSET>> \o Kk \o <<2, 1, 109, 1, 49, 1, 110, 255>>,    \* m: "1", n: -inf
    <<types_ZSET>> \o Kk \o <<2, 1, 109, 254, 1, 110, 2, 45, 50>>,  \* m: +inf, n: "-2"
    <<types_ZSET>> \o Kk \o <<1, 1, 109, 0>>,                     \* m: ""
    <<types_ZSET>> \o Kk \o <<1, 1, 109, 1, 120>>,                \* m: "x"
    <<types_HASH>> \o Kk \o <<1, 1, 102, 1, 118>>,                \* f -> "v"
    <<types_HASH>> \o Kk \o <<2, 1, 102, 192, 1, 1, 103, 1, 119>>,
    <<5>> \o Kk \o <<1, 1, 109, 0, 0, 0, 0, 0, 0, 240, 63>>,      \* ZSET_2 m: 1.0
    <<types_HASH_ZIPMAP>> \o Kk \o AsBlob(<<1, 1, 102, 1, 0, 118, 255>>),
    <<types_LIST_ZIPLIST>> \o Kk \o AsBlob(ZlX),
    <<types_LIST_ZIPLIST>> \o Kk \o AsBlob(ZlXInt),
    <<types_LIST_ZIPLIST>> \o Kk \o AsBlob(ZlNoEnd),
    <<types_SET_INTSET>> \o Kk \o AsBlob(<<2, 0, 0, 0, 2, 0, 0, 0, 5, 0, 255, 255>>),  \* {5, -1}
    <<types_ZSET_ZIPLIST>> \o Kk \o AsBlob(ZlPair),
    <<types_HASH_ZIPLIST>> \o Kk \o AsBlob(ZlPair),
    <<types_LIST_QUICKLIST>> \o Kk \o <<0>>,
    <<types_LIST_QUICKLIST>> \o Kk \o <<1>> \o AsBlob(ZlX),
    <<types_LIST_QUICKLIST>> \o Kk \o <<1>> \o AsBlob(ZlNoEnd),
    <<types_LIST_QUICKLIST>> \o Kk \o <<2>> \o AsBlob(ZlX) \o AsBlob(ZlXInt) }

RECURSIVE Bodies(_, _)
Bodies(R, n) ==
    IF n = 0 THEN {<<>>} ELSE {<<>>} \cup {r \o b : r \in R, b \in Bodies(R, n - 1)}

Header(version) == RDB_MAGIC \o version

V7 == <<48, 48, 48, 55>>      \* "0007"

Trailer == <<EOF, 1, 2, 3, 4, 5, 6, 7, 8>>

\* Files read with the header "REDIS0007" and a trailer of opcode 255 and 8 bytes.
BodyFiles ==
    {Header(V7) \o b \o Trailer : b \in Bodies(CoreRecords, MaxRecords)}
    \cup {Header(V7) \o b \o z \o c \o Trailer :
            b \in Bodies(CoreRecords, MaxPrefix), z \in KeyZoo, c \in Bodies(CoreRecords, 1)}

\* Files that vary the header and the end of the stream.
EdgeFiles ==
    {Header(v) \o <<SELECTDB, 0>> \o Trailer :
        v \in {<<48, 48, 48, 48>>, <<48, 48, 48, 49>>, <<48, 48, 48, 56>>, <<48, 48, 48, 57>>,
               <<48, 48, 49, 48>>, <<48, 48, 47, 55>>, <<49, 48, 48, 55>>}}
    \cup {<<82, 69, 68, 73, 88>> \o V7 \o Trailer, <<82, 69, 68>>, Header(V7)}
    \cup {Header(V7) \o b \o t : b \in Bodies(CoreRecords, 1), t \in {<<EOF>>, <<>>}}

\* Files that end inside a record: the header and a proper, non-empty prefix
\* of one record.
CutFiles ==
    UNION {{Header(V7) \o SubSeq(r, 1, n) : n \in 1..(Len(r) - 1)} :
              r \in CoreRecords \cup KeyZoo}

\* A logical list value: a byte string or an integer.
Str(b) == [int |-> FALSE, n |-> 0, b |-> b]

Num(n) == [int |-> TRUE, n |-> n, b |-> <<>>]

ListValues == {Str(<<120>>), Num(5), Num(-1), Num(300), Num(-300), Num(70000)}

RECURSIVE ListsOf(_, _)
ListsOf(V, n) ==
    IF n = 0 THEN {<<>>} ELSE {<<>>} \cup {<<v>> \o l : v \in V, l \in ListsOf(V, n - 1)}

LogicalLists == ListsOf(ListValues, MaxListLen)

\* the low w <= 3 bytes of the two's complement of n, little-endian
LEBytes(n, w) == [k \in 1..w |-> ((n % (256 ^ w)) \div (256 ^ (k - 1))) % 256]

\* n in 4 bytes, for -2^23 <= n < 2^23
LEBytes4(n) == LEBytes(n, 3) \o <<IF n < 0 THEN 255 ELSE 0>>

\* The blob Redis writes for the value v: an integer as INT8, INT16 or INT32,
\* a string with its length.
BlobOf(v) ==
    IF ~v.int THEN <<Len(v.b)>> \o v.b
    ELSE IF v.n >= -128 /\ v.n <= 127 THEN <<192>> \o LEBytes(v.n, 1)
    ELSE IF v.n >= -32768 /\ v.n <= 32767 THEN <<193>> \o LEBytes(v.n, 2)
    ELSE <<194>> \o LEBytes4(v.n)

\* The ziplist entry Redis writes for the value v (previous length 0): an
\* integer 0..12 in the flag, else in 8, 16, 24 or 32 bits; a string with its
\* 6-bit length.
ZlEntryOf(v) ==
    <<0>> \o
    (IF ~v.int THEN <<Len(v.b)>> \o v.b
     ELSE IF v.n >= 0 /\ v.n <= 12 THEN <<241 + v.n>>
     ELSE IF v.n >= -128 /\ v.n <= 127 THEN <<254>> \o LEBytes(v.n, 1)
     ELSE IF v.n >= -32768 /\ v.n <= 32767 THEN <<192>> \o LEBytes(v.n, 2)
     ELSE <<240>> \o LEBytes(v.n, 3))

RECURSIVE Concat(_)
Concat(ss) == IF ss = <<>> THEN <<>> ELSE Head(ss) \o Concat(Tail(ss))

ZiplistOf(l) == Zl(Len(l)) \o Concat([k \in 1..Len(l) |-> ZlEntryOf(l[k])]) \o <<255>>

\* The value of the key "k" holding the logical list l, in the three encodings.
EncList(l) == <<Len(l)>> \o Concat([k \in 1..Len(l) |-> BlobOf(l[k])])

EncZiplist(l) == AsBlob(ZiplistOf(l))

\* one child per value
EncQuicklist(l) == <<Len(l)>> \o Concat([k \in 1..Len(l) |-> AsBlob(ZiplistOf(<<l[k]>>))])

ListRecords ==
    UNION {{<<types_LIST>> \o Kk \o EncList(l),
            <<types_LIST_ZIPLIST>> \o Kk \o EncZiplist(l),
            <<types_LIST_QUICKLIST>> \o Kk \o EncQuicklist(l)} : l \in LogicalLists}

\* Files that hold one logical list in one of its encodings.
ListFiles == {Header(V7) \o r \o Trailer : r \in ListRecords}

\* Encoded blobs: INT8, INT16 and INT32 with payload bytes around the sign
\* change and the ends of the range, and sub-codes that are not defined.
EdgeBytes == {0, 1, 42, 127, 128, 214, 255}

EncodedBlobs ==
    {<<192, a>> : a \in 0..255}
    \cup {<<193, a, b>> : a \in EdgeBytes, b \in EdgeBytes}
    \cup {<<194, a, b, c, d>> : a \in {0, 255}, b \in {0, 1, 255}, c \in {0, 128},
                                d \in {0, 127, 128, 255}}
    \cup {<<196, 1>>, <<200, 1, 2>>, <<255, 1, 2, 3, 4>>}

\* Files that hold the string key "k" with an encoded blob as its value.
EncodedBlobFiles == {Header(V7) \o <<types_STRING>> \o Kk \o b \o Trailer : b \in EncodedBlobs}

\* Length prefixes of every form: 6 bits, 14 bits, encoded, 0x80 with 4 bytes
\* and 0x81 with 8 bytes.
LengthPrefixes ==
    {<<5>>, <<63>>, <<65, 2>>, <<127, 255>>, <<199>>, <<128, 0, 0, 1, 2>>,
     <<129, 0, 0, 0, 0, 0, 0, 1, 2>>}

\* Files that select the database whose id is written with the prefix.
LengthFiles == {Header(V7) \o <<SELECTDB>> \o l \o Trailer : l \in LengthPrefixes}

\* Integer ziplist entries, flag byte first: 2, 4 and 8 byte payloads around
\* the sign change, every 3-byte payload of the bytes 0, 1, 128, 255, every
\* 1-byte payload and every immediate value.
IntEntries ==
    {<<f, a, b>> : f \in {192, 197}, a \in {0, 1, 127, 128, 255}, b \in {0, 1, 127, 128, 255}}
    \cup {<<208>> \o x : x \in {<<0, 0, 0, 0>>, <<255, 255, 255, 255>>, <<0, 0, 0, 128>>,
                                 <<255, 255, 255, 127>>, <<112, 17, 1, 0>>}}
    \cup {<<224>> \o x : x \in {<<0, 0, 0, 0, 0, 0, 0, 0>>,
                                 <<255, 255, 255, 255, 255, 255, 255, 255>>,
                                 <<112, 17, 1, 0, 0, 0, 0, 0>>,
                                 <<0, 0, 0, 128, 255, 255, 255, 255>>,
                                 <<255, 255, 255, 127, 0, 0, 0, 0>>}}
    \cup {<<240, a, b, c>> : a \in {0, 1, 128, 255}, b \in {0, 1, 128, 255},
                             c \in {0, 1, 128, 255}}
    \cup {<<254, a>> : a \in 0..255}
    \cup {<<f>> : f \in 241..253}

\* Files with the key "k" holding a ziplist of one integer entry.
IntEntryFiles ==
    {Header(V7) \o <<types_LIST_ZIPLIST>> \o Kk \o AsBlob(Zl(1) \o <<0>> \o e \o <<255>>)
        \o Trailer : e \in IntEntries}

\* Files with two list keys, each in any of the three list encodings.
ListShaped == {
    <<types_LIST>> \o Kk \o <<2, 1, 120, 1, 121>>,                            \* ["x", "y"]
    <<types_LIST_ZIPLIST>> \o Kk \o AsBlob(ZlXInt),                           \* ["x", 2]
    <<types_LIST_QUICKLIST>> \o Kk \o <<2>> \o AsBlob(ZlX) \o AsBlob(ZlXInt) } \* ["x"], ["x", 2]

TwoListFiles == {Header(V7) \o a \o b \o Trailer : a \in ListShaped, b \in ListShaped}

Files ==
    BodyFiles \cup EdgeFiles \cup CutFiles \cup ListFiles \cup EncodedBlobFiles
    \cup LengthFiles \cup IntEntryFiles \cup TwoListFiles

\* Files for the runs in which a formatter call fails.
FailingFiles ==
    {Header(V7) \o b \o t : b \in Bodies(CoreRecords, 1), t \in {Trailer, <<>>}}

StrictFilter(databases, types, keys) ==
    [databases |-> databases, types |-> types, keys |-> keys]

Filters == {
    StrictFilter({}, {}, None),                       \* StrictFilter::new(), AllFilter
    StrictFilter({0}, {}, None),
    StrictFilter({}, {"String"}, None),
    StrictFilter({}, {}, Some({<<97>>})),             \* a regex matching the key "a" only
    StrictFilter({1}, {"List", "SortedSet"}, Some({<<107>>})) }

\* RdbParser::new
Init ==
    /\ input \in Files
    /\ filter \in Filters
    /\ pos = 1
    /\ formatter = <<>>
    /\ last_expiretime = None
    /\ last_database = 0
    /\ pc = "start"
    /\ trace = <<>>
    /\ formatter_err = 0
    /\ protocol = Protocol_new
    /\ plain = Plain_new
    /\ json = JSON_new
    /\ progress_bar = 0
    /\ writer = <<>>

Spec == Init /\ [][Next]_vars

\* The same parser with a formatter whose call number formatter_err returns Err.
InitFailing ==
    /\ input \in FailingFiles
    /\ filter \in Filters
    /\ pos = 1
    /\ formatter = <<>>
    /\ last_expiretime = None
    /\ last_database = 0
    /\ pc = "start"
    /\ trace = <<>>
    /\ formatter_err \in 1..MaxFailAt
    /\ protocol = Protocol_new
    /\ plain = Plain_new
    /\ json = JSON_new
    /\ progress_bar = 0
    /\ writer = <<>>

SpecFailing == InitFailing /\ [][Next]_vars

(***************************************************************************)
(* The formatters under any caller of the Formatter trait that keeps to    *)
(* the order start_rdb, databases of keys, end_rdb: one action per         *)
(* operation of the trait.  pc is "new", "rdb" (between databases), "db"   *)
(* (between keys), the family of the open key, or "ended".                 *)
(***************************************************************************)
MaxCalls == 8

DbNumbers == {0, 1}
\* the key, the length and the expiry of a key: "a" and "k", with and
\* without expiry, with a length that is and is not the number of elements
KeyArgs == {[key |-> <<97>>, length |-> 0, expiry |-> None],
            [key |-> <<107>>, length |-> 2, expiry |-> Some(261)],
            [key |-> <<97>>, length |-> 2, expiry |-> None]}
Families == {"hash", "set", "list", "sorted_set"}

Call(e, next_pc) ==
    /\ Len(formatter) < MaxCalls
    /\ Deliver(<<e>>)
    /\ pc' = next_pc
    /\ UNCHANGED <<input, pos, filter, last_expiretime, trace, formatter_err,
                   progress_bar, writer>>

CallStartRdb == pc = "new" /\ Call(start_rdb, "rdb") /\ UNCHANGED last_database

CallStartDatabase ==
    /\ pc = "rdb"
    /\ \E db \in DbNumbers : Call(start_database(db), "db") /\ last_database' = db

CallEndDatabase ==
    pc = "db" /\ Call(end_database(last_database), "rdb") /\ UNCHANGED last_database

CallEndRdb == pc = "rdb" /\ Call(end_rdb, "ended") /\ UNCHANGED last_database

CallSet ==
    /\ pc = "db"
    /\ \E k \in KeyArgs : Call(set(k.key, <<118>>, k.expiry), "db")
    /\ UNCHANGED last_database

StartOf(family, key, length, expiry) ==
    CASE family = "hash" -> start_hash(key, length, expiry)
      [] family = "set" -> start_set(key, length, expiry)
      [] family = "list" -> start_list(key, length, expiry)
      [] family = "sorted_set" -> start_sorted_set(key, length, expiry)

ElementOf(family, key) ==
    CASE family = "hash" -> hash_element(key, <<102>>, <<118>>)
      [] family = "set" -> set_element(key, <<109>>)
      [] family = "list" -> list_element(key, <<120>>)
      [] family = "sorted_set" -> sorted_set_element(key, Score("num", <<49>>), <<109>>)

EndOf(family, key) ==
    CASE family = "hash" -> end_hash(key)
      [] family = "set" -> end_set(key)
      [] family = "list" -> end_list(key)
      [] family = "sorted_set" -> end_sorted_set(key)

CallStart ==
    /\ pc = "db"
    /\ \E family \in Families, k \in KeyArgs :
          Call(StartOf(family, k.key, k.length, k.expiry), family)
    /\ UNCHANGED last_database

\* the key of the open collection: every call since its start carries it
CallElement ==
    /\ pc \in Families
    /\ Call(ElementOf(pc, formatter[Len(formatter)].key), pc)
    /\ UNCHANGED last_database

CallEnd ==
    /\ pc \in Families
    /\ Call(EndOf(pc, formatter[Len(formatter)].key), "db")
    /\ UNCHANGED last_database

NextFormatter ==
    \/ CallStartRdb
    \/ CallStartDatabase
    \/ CallEndDatabase
    \/ CallEndRdb
    \/ CallSet
    \/ CallStart
    \/ CallElement
    \/ CallEnd

InitFormatter ==
    /\ input = <<>>
    /\ filter = StrictFilter({}, {}, None)
    /\ pos = 1
    /\ formatter = <<>>
    /\ last_expiretime = None
    /\ last_database = 0
    /\ pc = "new"
    /\ trace = <<>>
    /\ formatter_err = 0
    /\ protocol = Protocol_new
    /\ plain = Plain_new
    /\ json = JSON_new
    /\ progress_bar = 0
    /\ writer = <<>>

SpecFormatter == InitFormatter /\ [][NextFormatter]_vars

(***************************************************************************)
(* The I/O helpers.  ReadProgressBar (read_pb.rs) is a Read that wraps a   *)
(* Read and advances a progress bar; write_str (formatter/mod.rs) hands a  *)
(* string to a Write.  An io::Result is modelled as a record: Ok(n) with   *)
(* the bytes the call moved, or Err(kind).  The wrapped reader serves input *)
(* from pos; a Read may return fewer bytes than the buffer holds and a     *)
(* Write may accept fewer bytes than it is offered, as std::io allows.     *)
(***************************************************************************)
MaxReads == 3         \* calls of ReadProgressBar::read
MaxBuf == 2           \* the longest buffer handed to read
MaxWrites == 3        \* calls of write_str
MaxAccept == 2        \* the most bytes the writer accepts in one write call

ErrorKinds == {"Interrupted", "BrokenPipe"}

IoOk(n, bytes) == [ok |-> TRUE, n |-> n, bytes |-> bytes, err |-> ""]
IoErr(kind) == [ok |-> FALSE, n |-> 0, bytes |-> <<>>, err |-> kind]

Least(a, b) == IF a < b THEN a ELSE b

\* self.reader.read(buf) with a buffer of buf bytes: every result the wrapped
\* reader can give at its position
reader_read(buf) ==
    {IoErr(kind) : kind \in ErrorKinds}
    \cup {IoOk(n, SubSeq(input, pos, pos + n - 1)) :
            n \in 0..Least(buf, Len(input) - pos + 1)}

\* ReadProgressBar::read, given the result of the wrapped reader: what it
\* returns and where the progress bar stands afterwards
ReadProgressBar_read_whole_buffer(bar, buf, inner) ==
    IF ~inner.ok
    THEN [returned |-> IoErr(inner.err), progress_bar |-> bar]
    ELSE [returned |-> IoOk(inner.n, inner.bytes), progress_bar |-> bar + buf]

ReadProgressBar_read(bar, buf, inner) ==
    IF ~inner.ok
    THEN [returned |-> IoErr(inner.err), progress_bar |-> bar]
    ELSE [returned |-> IoOk(inner.n, inner.bytes), progress_bar |-> bar + inner.n]

ReadCallOf(buf, inner) ==
    /\ pos' = pos + inner.n
    /\ progress_bar' = ReadProgressBar_read(progress_bar, buf, inner).progress_bar
    /\ trace' = Append(trace,
                  [op |-> "read", buf |-> buf, inner |-> inner,
                   returned |-> ReadProgressBar_read(progress_bar, buf, inner).returned,
                   before |-> progress_bar])

ReadCall ==
    /\ pc = "reading"
    /\ Len(trace) < MaxReads
    /\ \E buf \in 0..MaxBuf : \E inner \in reader_read(buf) : ReadCallOf(buf, inner)
    /\ UNCHANGED <<input, filter, formatter, last_expiretime, last_database, pc,
                   formatter_err, protocol, plain, json, writer>>

\* ReadProgressBar::new takes the reader and a progress bar as they are
ReaderInputs == {<<>>, <<82, 69, 68>>, <<82, 69, 68, 73, 83>>}
BarPositions == {0, 4}

InitReadPb ==
    /\ input \in ReaderInputs
    /\ filter = StrictFilter({}, {}, None)
    /\ pos = 1
    /\ formatter = <<>>
    /\ last_expiretime = None
    /\ last_database = 0
    /\ pc = "reading"
    /\ trace = <<>>
    /\ formatter_err = 0
    /\ protocol = Protocol_new
    /\ plain = Plain_new
    /\ json = JSON_new
    /\ progress_bar \in BarPositions
    /\ writer = <<>>

SpecReadPb == InitReadPb /\ [][ReadCall]_vars

\* out.write(data): every result a writer can give when offered data, with
\* the number of bytes it took
out_write(data) ==
    {IoErr(kind) : kind \in ErrorKinds}
    \cup {IoOk(Least(accept, Len(data)), <<>>) : accept \in 0..MaxAccept}

\* write_str, given the result of out.write: `?` on the result, then Ok(())
write_str(res) == IF res.ok THEN IoOk(0, <<>>) ELSE IoErr(res.err)

\* the strings Protocol::emit hands to write_str, as bytes: "*", "$", "\r\n"
Literals == {<<42>>, <<36>>, <<13, 10>>}

WriteStrCallOf(data, res) ==
    /\ writer' = writer \o SubSeq(data, 1, res.n)
    /\ trace' = Append(trace,
                  [op |-> "write_str", data |-> data, returned |-> write_str(res),
                   before |-> Len(writer), after |-> Len(writer) + res.n])

WriteStrCall ==
    /\ pc = "writing"
    /\ Len(trace) < MaxWrites
    /\ \E data \in Literals : \E res \in out_write(data) : WriteStrCallOf(data, res)
    /\ UNCHANGED <<input, pos, filter, formatter, last_expiretime, last_database, pc,
                   formatter_err, protocol, plain, json, progress_bar>>

InitWriter ==
    /\ input = <<>>
    /\ filter = StrictFilter({}, {}, None)
    /\ pos = 1
    /\ formatter = <<>>
    /\ last_expiretime = None
    /\ last_database = 0
    /\ pc = "writing"
    /\ trace = <<>>
    /\ formatter_err = 0
    /\ protocol = Protocol_new
    /\ plain = Plain_new
    /\ json = JSON_new
    /\ progress_bar = 0
    /\ writer = <<>>

SpecWriter == InitWriter /\ [][WriteStrCall]_vars

(***************************************************************************)
(* Properties.  They are stated over the formatter calls and the history   *)
(* of loop iterations (trace).                                             *)
(***************************************************************************)
OpCodes == {AUX, RESIZEDB, EXPIRETIME_MS, EXPIRETIME, SELECTDB, EOF}

IsKeyRecord(t) == t.op \notin OpCodes

\* the filter admits the key record t
Admitted(t) ==
    /\ matches_db(filter, t.db)
    /\ matches_type(filter, t.op).ok
    /\ matches_type(filter, t.op).res
    /\ matches_key(filter, t.key)

\* the formatter calls made for the record t
Calls(t) == SubSeq(formatter, t.from + 1, t.to)

StartOps == {"set", "start_list", "start_set", "start_sorted_set", "start_hash"}

KeyOps == StartOps \cup {"list_element", "set_element", "sorted_set_element", "hash_element",
                         "end_list", "end_set", "end_sorted_set", "end_hash"}

Count(op) == Cardinality({i \in 1..Len(formatter) : formatter[i].op = op})

\* C1: on an accepted input every start_database(id) is followed by exactly
\* one end_database(id), emitted before any later start_database and before
\* end_rdb, and every end_database(id) closes a start_database(id).
C1_DatabaseEventsBalanced ==
    pc = "done" =>
        /\ \A i \in 1..Len(formatter) :
              formatter[i].op = "start_database" =>
                  \E j \in (i + 1)..Len(formatter) :
                      /\ formatter[j] = end_database(formatter[i].n)
                      /\ \A k \in (i + 1)..(j - 1) :
                            formatter[k].op \notin {"start_database", "end_database", "end_rdb"}
        /\ \A j \in 1..Len(formatter) :
              formatter[j].op = "end_database" =>
                  \E i \in 1..(j - 1) :
                      /\ formatter[i] = start_database(formatter[j].n)
                      /\ \A k \in (i + 1)..(j - 1) :
                            formatter[k].op \notin {"start_database", "end_database"}

\* C2: start_rdb is the first call and made once; end_rdb is made once, is
\* directly followed by checksum, and checksum is the last call of an accepted
\* input; every other call lies between start_rdb and end_rdb; the calls of a
\* record that is later in the file come later.
C2_RdbEventsOrdered ==
    /\ formatter # <<>> => formatter[1] = start_rdb
    /\ \A i \in 2..Len(formatter) : formatter[i].op # "start_rdb"
    /\ \A i \in 1..Len(formatter) :
          /\ formatter[i].op = "end_rdb" =>
                i = Len(formatter) - 1 /\ formatter[i + 1].op = "checksum" /\ pc = "done"
          /\ formatter[i].op = "checksum" => i = Len(formatter) /\ formatter[i - 1] = end_rdb
    /\ pc = "done" => Count("start_rdb") = 1 /\ Count("end_rdb") = 1 /\ Count("checksum") = 1
    /\ \A i \in 1..Len(trace) :
          /\ trace[i].from = (IF i = 1 THEN 1 ELSE trace[i - 1].to)
          /\ trace[i].from <= trace[i].to
          /\ i > 1 => trace[i - 1].at < trace[i].at
    /\ trace # <<>> => trace[Len(trace)].to = Len(formatter)

C2_Witness ==
    /\ pc = "done"
    /\ \E i, j, k \in 1..Len(formatter) :
          /\ i < j /\ j < k
          /\ formatter[i].op = "start_database"
          /\ formatter[j].op = "aux_field"
          /\ formatter[k].op = "set"

\* the value an expire opcode record latches
Latched(t) ==
    IF t.op = EXPIRETIME_MS THEN Some(LE64(input, t.at + 1))
    ELSE Some(BE32(input, t.at + 1) * 1000)

\* C3: the key record trace[i] is admitted and directly follows an expire
\* opcode: its first formatter call is the set/start_X of its key and carries
\* the value of that opcode (252: 8 bytes little-endian, in ms; 253: 4 bytes
\* big-endian, times 1000).  A key record that follows another key record
\* carries no expiry.
C3_ExpiryPairing ==
    \A i \in 2..Len(trace) :
        (IsKeyRecord(trace[i]) /\ trace[i].ok /\ Admitted(trace[i])) =>
            /\ trace[i - 1].op \in {EXPIRETIME_MS, EXPIRETIME} =>
                  /\ Calls(trace[i]) # <<>>
                  /\ Calls(trace[i])[1].op \in StartOps
                  /\ Calls(trace[i])[1].key = trace[i].key
                  /\ Calls(trace[i])[1].exp = Latched(trace[i - 1])
            /\ IsKeyRecord(trace[i - 1]) =>
                  \A k \in 1..Len(Calls(trace[i])) : Calls(trace[i])[k].exp = None

\* C4: after a key record has been processed (read, skipped after its key, or
\* skipped with its key) the latch is empty, and the calls of a key record
\* that follows a key record carry no expiry.
C4_LatchClearedByKeyRecord ==
    /\ (trace # <<>> /\ IsKeyRecord(trace[Len(trace)]) /\ trace[Len(trace)].ok) =>
          last_expiretime = None
    /\ \A i \in 2..Len(trace) :
          (IsKeyRecord(trace[i]) /\ IsKeyRecord(trace[i - 1])) =>
              \A k \in 1..Len(Calls(trace[i])) : Calls(trace[i])[k].exp = None

\* an expire opcode, a key record the filter rejected, a key record that was
\* emitted
C4_Witness ==
    /\ Len(trace) >= 3
    /\ trace[1].op \in {EXPIRETIME_MS, EXPIRETIME}
    /\ IsKeyRecord(trace[2]) /\ trace[2].ok /\ ~Admitted(trace[2])
    /\ IsKeyRecord(trace[3]) /\ trace[3].ok /\ Calls(trace[3]) # <<>>
    /\ last_expiretime = None

\* The position after the key record that starts at `at`, when it is read
\* (read_blob for the key, then read_type) and when it is skipped.
ReadEnd(t) == read_type(input, read_blob(input, t.at + 1).p, t.key, t.op, None)

SkipObjectEnd(t) == skip_object(input, read_blob(input, t.at + 1).p, t.op)

SkipKeyAndObjectEnd(t) == skip_key_and_object(input, t.at + 1, t.op)

ConservedTypes == {types_STRING, types_LIST, types_SET, types_HASH, types_HASH_ZIPMAP,
                   types_LIST_ZIPLIST, types_SET_INTSET, types_ZSET_ZIPLIST, types_HASH_ZIPLIST}

\* the record trace[i] is left at the position reading it leaves it at,
\* whichever of the three paths the filter chose, and both skips end there
Conserved(t) ==
    (read_blob(input, t.at + 1).ok /\ ReadEnd(t).ok) =>
        /\ t.ok
        /\ t.end = ReadEnd(t).p
        /\ SkipObjectEnd(t).ok /\ SkipObjectEnd(t).p = ReadEnd(t).p
        /\ SkipKeyAndObjectEnd(t).ok /\ SkipKeyAndObjectEnd(t).p = ReadEnd(t).p

\* C5: a key record of type STRING, LIST, SET, HASH or 9..13 that can be read
\* is left at the same position by skip_object, by skip_key_and_object and by
\* read_blob + read_type, for every blob form.
C5_SkipConservesBytes ==
    \A i \in 1..Len(trace) : trace[i].op \in ConservedTypes => Conserved(trace[i])

\* a record with an LZF blob skipped with its key, one skipped after its key
C5_Witness ==
    /\ Len(trace) >= 2
    /\ trace[2].op = types_STRING /\ trace[2].ok /\ trace[2].from = trace[2].to
    /\ input[trace[2].at + 3] = 195
    /\ ~matches_db(filter, trace[2].db)
    /\ pc = "done"

\* C6: a ZSET record that can be read is left at the same position when it is
\* skipped, for a score text and for the sentinels 253, 254, 255.
C6_ZsetSkipConservesBytes ==
    \A i \in 1..Len(trace) : trace[i].op = types_ZSET => Conserved(trace[i])

\* C7: a filtered-out LIST_QUICKLIST record is skipped, and the parser is then
\* at the position reading it would leave it at.
C7_QuicklistSkipped ==
    \A i \in 1..Len(trace) :
        (trace[i].op = types_LIST_QUICKLIST /\ ~matches_db(filter, trace[i].db)
            /\ read_blob(input, trace[i].at + 1).ok /\ ReadEnd(trace[i]).ok) =>
            /\ trace[i].ok
            /\ trace[i].end = ReadEnd(trace[i]).p
            /\ trace[i].from = trace[i].to

\* C8: calls are made for a key record only if matches_db, matches_type and
\* matches_key all hold; start_database(id) is called at SELECTDB only if
\* matches_db(id); every key call belongs to such a key record.
C8_OnlyAdmittedEmitted ==
    /\ \A i \in 1..Len(trace) :
          /\ (IsKeyRecord(trace[i]) /\ Calls(trace[i]) # <<>>) => Admitted(trace[i])
          /\ (trace[i].op = SELECTDB /\ ~trace[i].ok) => Calls(trace[i]) = <<>>
          /\ (trace[i].op = SELECTDB /\ trace[i].ok) =>
                Calls(trace[i]) = (IF matches_db(filter, trace[i].db)
                                   THEN <<start_database(trace[i].db)>> ELSE <<>>)
    /\ \A k \in 1..Len(formatter) :
          /\ formatter[k].op \in KeyOps =>
                \E i \in 1..Len(trace) :
                    /\ IsKeyRecord(trace[i]) /\ Admitted(trace[i])
                    /\ trace[i].from < k /\ k <= trace[i].to
                    /\ formatter[k].key = trace[i].key
          /\ formatter[k].op = "start_database" => matches_db(filter, formatter[k].n)

\* a key record rejected by matches_key alone, then one that is emitted
C8_Witness ==
    /\ Len(trace) >= 2
    /\ IsKeyRecord(trace[1]) /\ trace[1].ok /\ Calls(trace[1]) = <<>>
    /\ matches_db(filter, trace[1].db) /\ matches_type(filter, trace[1].op).res
    /\ ~matches_key(filter, trace[1].key)
    /\ IsKeyRecord(trace[2]) /\ Calls(trace[2]) # <<>>

Family(op) ==
    CASE op \in {"start_list", "list_element", "end_list"} -> "list"
      [] op \in {"start_set", "set_element", "end_set"} -> "set"
      [] op \in {"start_sorted_set", "sorted_set_element", "end_sorted_set"} -> "sorted_set"
      [] op \in {"start_hash", "hash_element", "end_hash"} -> "hash"
      [] OTHER -> "none"

\* the calls c of one key: start_X, elements of X, end_X, all of the key
Nested(c, key) ==
    /\ Len(c) >= 2
    /\ c[1].op \in StartOps \ {"set"}
    /\ c[Len(c)].op \in {"end_list", "end_set", "end_sorted_set", "end_hash"}
    /\ \A k \in 1..Len(c) : c[k].key = key /\ Family(c[k].op) = Family(c[1].op)
    /\ \A k \in 2..(Len(c) - 1) :
          c[k].op \in {"list_element", "set_element", "sorted_set_element", "hash_element"}

\* C9: the calls of every emitted collection key are one start_X, element
\* calls of the family X and one end_X of the family X, all with its key.
C9_EventNesting ==
    \A i \in 1..Len(trace) :
        (IsKeyRecord(trace[i]) /\ trace[i].ok /\ Calls(trace[i]) # <<>>
            /\ Calls(trace[i])[1].op # "set") =>
            Nested(Calls(trace[i]), trace[i].key)

\* C10: the header is accepted exactly when it is "REDIS" and four ASCII
\* digits of a value in 1..8.
HeaderAsSpecified ==
    /\ Len(input) >= 9
    /\ SubSeq(input, 1, 5) = <<82, 69, 68, 73, 83>>
    /\ \A i \in 6..9 : IsDigit(input[i])
    /\ (input[6] - 48) * 1000 + (input[7] - 48) * 100 + (input[8] - 48) * 10 + (input[9] - 48)
          \in 1..8

C10_HeaderAccepted == pc # "start" => (formatter # <<>> <=> HeaderAsSpecified)

\* the header check of parse() fails
HeaderRejected ==
    Have(input, 1, 9) /\ ~(verify_magic(input, 1) /\ verify_version(input, 6))

\* C11: on a magic mismatch or an unsupported version parse ends by returning
\* an error (not by aborting) and no formatter call has been made.
C11_HeaderErrorReturned ==
    (pc # "start" /\ HeaderRejected) => (pc = "error" /\ formatter = <<>>)

\* the input ends inside a record
EndsInRecord == input \in CutFiles

\* C12: when the input ends inside a record, parse ends by returning an error:
\* it does not abort, does not report success, and reads no opcode after the
\* record that was cut.
C12_ShortReadErrorReturned ==
    EndsInRecord =>
        /\ pc \in {"start", "loop", "error"}
        /\ Len(trace) <= 1
        /\ (pc = "loop" => trace = <<>>)

\* C13: when formatter call number formatter_err fails, it is the last call
\* made and parse returns the failure.
C13_EmitterFailureAborts ==
    formatter_err \in 1..Len(formatter) =>
        (Len(formatter) = formatter_err /\ pc = "error")

\* the key record t was read and emitted
Emitted(t) == IsKeyRecord(t) /\ t.ok /\ Admitted(t)

\* the position after the key blob of the key record t
KeyEnd(t) == read_blob(input, t.at + 1).p

\* the values of the element calls between the first and the last call of c
Elements(c) == [k \in 1..(Len(c) - 2) |-> c[k + 1].a]

\* C14: an emitted SET key with length prefix N and latched expiry e makes the
\* calls start_set(key, N, e), set_element(key, v) for its N blobs v in file
\* order, end_set(key), and no list call.
C14_SetEvents ==
    \A i \in 1..Len(trace) :
        (trace[i].op = types_SET /\ Emitted(trace[i])) =>
            /\ Len(Calls(trace[i])) = read_length(input, KeyEnd(trace[i])).length + 2
            /\ Calls(trace[i]) =
                  <<start_set(trace[i].key, read_length(input, KeyEnd(trace[i])).length,
                              trace[i].exp)>>
                  \o [k \in 1..(Len(ReadEnd(trace[i]).ev) - 2) |->
                         set_element(trace[i].key, Elements(ReadEnd(trace[i]).ev)[k])]
                  \o <<end_set(trace[i].key)>>

\* the zipmap blob of the HASH_ZIPMAP record t, and its (field, value) pairs
\* as the flat sequence f1, v1, f2, v2, ...
ZipmapBlob(t) == read_blob(input, KeyEnd(t)).val

ZipmapPairs(t) ==
    ZipmapLoop(ZipmapBlob(t), 2,
               IF ZipmapBlob(t)[1] <= 254 THEN ZipmapBlob(t)[1] ELSE Unknown, <<>>).hash

\* the calls c are start_hash(key, _, exp), hash_element(key, f, v) for the
\* pairs of h in order, end_hash(key)
HashCalls(c, key, exp, h) ==
    /\ Len(c) = Len(h) \div 2 + 2
    /\ c[1].op = "start_hash" /\ c[1].key = key /\ c[1].exp = exp
    /\ \A k \in 1..(Len(h) \div 2) : c[k + 1] = hash_element(key, h[2 * k - 1], h[2 * k])
    /\ c[Len(c)] = end_hash(key)

\* C15: an emitted HASH_ZIPMAP key whose zipmap holds k pairs makes the calls
\* start_hash with the latched expiry, k hash_element in blob order, end_hash.
C15_ZipmapEvents ==
    \A i \in 1..Len(trace) :
        (trace[i].op = types_HASH_ZIPMAP /\ Emitted(trace[i])) =>
            HashCalls(Calls(trace[i]), trace[i].key, trace[i].exp, ZipmapPairs(trace[i]))

\* the entries of the ziplist blob of the record t, in blob order
ZiplistEntries(t) == Elements(ReadEnd(t).ev)

\* the calls c are start_sorted_set(key, _, exp), sorted_set_element(key, score,
\* member) for the (member, score text) pairs of h in order, end_sorted_set(key)
SortedSetCalls(c, key, exp, h) ==
    /\ Len(c) = Len(h) \div 2 + 2
    /\ c[1].op = "start_sorted_set" /\ c[1].key = key /\ c[1].exp = exp
    /\ \A k \in 1..(Len(h) \div 2) :
          c[k + 1] = sorted_set_element(key, Score("num", h[2 * k]), h[2 * k - 1])
    /\ c[Len(c)] = end_sorted_set(key)

\* C16: an emitted ziplist of 2N entries makes, for type 13, the calls
\* start_hash, N hash_element, end_hash and, for type 12, the calls
\* start_sorted_set, N sorted_set_element, end_sorted_set; no list call.
C16_ZiplistPairEvents ==
    \A i \in 1..Len(trace) :
        /\ (trace[i].op = types_HASH_ZIPLIST /\ Emitted(trace[i])) =>
              HashCalls(Calls(trace[i]), trace[i].key, trace[i].exp,
                        ZiplistEntries(trace[i]))
        /\ (trace[i].op = types_ZSET_ZIPLIST /\ Emitted(trace[i])) =>
              SortedSetCalls(Calls(trace[i]), trace[i].key, trace[i].exp,
                             ZiplistEntries(trace[i]))

\* the list_element calls of the n child ziplists that start at p, child after
\* child, and whether every child ends in 0xFF
RECURSIVE ChildCalls(_, _, _, _)
ChildCalls(s, p, key, n) ==
    IF n = 0 THEN <<>>
    ELSE read_quicklist_ziplist(s, p, key).ev
         \o ChildCalls(s, read_quicklist_ziplist(s, p, key).p, key, n - 1)

RECURSIVE ChildrenTerminated(_, _, _)
ChildrenTerminated(s, p, n) ==
    \/ n = 0
    \/ /\ read_blob(s, p).ok
       /\ read_blob(s, p).val # <<>>
       /\ read_blob(s, p).val[Len(read_blob(s, p).val)] = 255
       /\ ChildrenTerminated(s, read_blob(s, p).p, n - 1)

\* the number of child blobs of the LIST_QUICKLIST record t, and where they start
Children(t) == read_length(input, KeyEnd(t))

\* C17: an emitted LIST_QUICKLIST key with N child ziplists makes the calls
\* start_list(key, 0, expiry), one list_element per entry, child after child,
\* end_list(key); a record with a child that lacks the 0xFF terminator is not read.
C17_QuicklistEvents ==
    \A i \in 1..Len(trace) :
        (trace[i].op = types_LIST_QUICKLIST /\ Emitted(trace[i])) =>
            /\ ChildrenTerminated(input, Children(trace[i]).p, Children(trace[i]).length)
            /\ Calls(trace[i]) =
                  <<start_list(trace[i].key, 0, trace[i].exp)>>
                  \o ChildCalls(input, Children(trace[i]).p, trace[i].key,
                                Children(trace[i]).length)
                  \o <<end_list(trace[i].key)>>

ZSET_2 == 5

\* A ZSET_2 value as specified: a length prefix n, then n times a member blob
\* and 8 raw score bytes.  The members read from p, and the position reached.
RECURSIVE Zset2Members(_, _, _)
Zset2Members(s, p, n) ==
    IF n = 0 THEN [ok |-> TRUE, p |-> p, members |-> <<>>]
    ELSE IF ~read_blob(s, p).ok \/ ~Have(s, read_blob(s, p).p, 8)
    THEN [ok |-> FALSE, p |-> AtEnd(s), members |-> <<>>]
    ELSE [Zset2Members(s, read_blob(s, p).p + 8, n - 1)
             EXCEPT !.members = <<read_blob(s, p).val>> \o @]

Zset2(t) ==
    IF ~read_blob(input, t.at + 1).ok \/ ~read_length(input, KeyEnd(t)).ok
    THEN [ok |-> FALSE, p |-> AtEnd(input), members |-> <<>>]
    ELSE Zset2Members(input, read_length(input, KeyEnd(t)).p,
                      read_length(input, KeyEnd(t)).length)

\* C18: a well-formed key record of type 5 is never rejected; when it is
\* emitted the calls are start_sorted_set, one sorted_set_element per member,
\* end_sorted_set, and the reader is left after the last 8 score bytes.
C18_Zset2Handled ==
    \A i \in 1..Len(trace) :
        (trace[i].op = ZSET_2 /\ Zset2(trace[i]).ok
            /\ (filter.types = {} \/ "SortedSet" \in filter.types)) =>
            /\ trace[i].ok
            /\ trace[i].end = Zset2(trace[i]).p
            /\ (matches_db(filter, trace[i].db) /\ matches_key(filter, trace[i].key)) =>
                  /\ Len(Calls(trace[i])) = Len(Zset2(trace[i]).members) + 2
                  /\ Calls(trace[i])[1].op = "start_sorted_set"
                  /\ Calls(trace[i])[1].key = trace[i].key
                  /\ Calls(trace[i])[1].exp = trace[i].exp
                  /\ \A k \in 1..Len(Zset2(trace[i]).members) :
                        /\ Calls(trace[i])[k + 1].op = "sorted_set_element"
                        /\ Calls(trace[i])[k + 1].a = Zset2(trace[i]).members[k]
                  /\ Calls(trace[i])[Len(Calls(trace[i]))] = end_sorted_set(trace[i].key)

IsListElement(e) == e.op = "list_element"

\* the list_element calls of the logical list l stored as LIST
ListElementsOf(l, key) ==
    SelectSeq(read_type(EncList(l), 1, key, types_LIST, None).ev, IsListElement)

\* the value bytes of the key record t
ValueBytes(t) == SubSeq(input, KeyEnd(t), t.end - 1)

\* C19: a logical list stored as LIST_ZIPLIST or as LIST_QUICKLIST makes the
\* same list_element calls, in the same order and with the same bytes, as the
\* same list stored as LIST.
C19_ListEncodingsAgree ==
    \A i \in 1..Len(trace) : \A l \in LogicalLists :
        (Emitted(trace[i])
            /\ \/ trace[i].op = types_LIST /\ ValueBytes(trace[i]) = EncList(l)
               \/ trace[i].op = types_LIST_ZIPLIST /\ ValueBytes(trace[i]) = EncZiplist(l)
               \/ trace[i].op = types_LIST_QUICKLIST /\ ValueBytes(trace[i]) = EncQuicklist(l)) =>
            SelectSeq(Calls(trace[i]), IsListElement) = ListElementsOf(l, trace[i].key)

\* the iteration t of opcode 255 made the calls end_database, end_rdb and
\* checksum with every byte after the opcode, and ended the parse with the
\* whole input consumed
EofHandled(t) ==
    /\ Calls(t) = <<end_database(t.db), end_rdb,
                    checksum(SubSeq(input, t.at + 1, Len(input)))>>
    /\ t = trace[Len(trace)]
    /\ pc = "done"
    /\ pos = Len(input) + 1

\* C20: on opcode 255 the parser calls end_database, end_rdb and checksum with
\* all the bytes that remain after the opcode, unchanged, and terminates with
\* the whole input consumed: no step follows.
C20_EofPassesChecksum ==
    /\ [](\A i \in 1..Len(trace) : trace[i].op = EOF => EofHandled(trace[i]))
    /\ [](pc = "done" => (trace # <<>> /\ trace[Len(trace)].op = EOF))
    /\ [][pc # "done"]_vars

\* a parse that ended after two records and handed over 8 checksum bytes
C20_Witness ==
    /\ pc = "done"
    /\ Len(trace) >= 3
    /\ formatter[Len(formatter)] = checksum(<<1, 2, 3, 4, 5, 6, 7, 8>>)

\* The integer that w little-endian bytes at p hold in two's complement: the
\* top byte counts from -128, the others from 0.
RECURSIVE LowBytes(_, _, _)
LowBytes(s, p, w) == IF w = 0 THEN 0 ELSE s[p] + 256 * LowBytes(s, p + 1, w - 1)

TopByte(b) == IF b >= 128 THEN b - 256 ELSE b

SignedAt(s, p, w) == LowBytes(s, p, w - 1) + TopByte(s[p + w - 1]) * (256 ^ (w - 1))

\* The decimal text of n: '-' for a negative n, then the digits, most
\* significant first and without leading zeros.
RECURSIVE DigitsOf(_)
DigitsOf(n) ==
    IF n > -10 /\ n < 10 THEN <<48 + (IF n < 0 THEN -n ELSE n)>>
    ELSE IF n < 0
    THEN DigitsOf((n + ((10 - (n % 10)) % 10)) \div 10) \o <<48 + ((10 - (n % 10)) % 10)>>
    ELSE DigitsOf(n \div 10) \o <<48 + (n % 10)>>

DecimalText(n) == IF n < 0 THEN <<45>> \o DigitsOf(n) ELSE DigitsOf(n)

\* the payload width of the integer sub-codes 0, 1, 2
IntWidth(sub) == IF sub = 0 THEN 1 ELSE IF sub = 1 THEN 2 ELSE 4

\* the STRING record t whose value starts with the encoded prefix 0xC0 + sub
\* at position v: an integer sub-code yields the decimal text of the signed
\* payload and consumes it; a sub-code above 3 is rejected
EncodedValue(t, v, sub) ==
    /\ (sub \in 0..2 /\ Have(input, v + 1, IntWidth(sub))) =>
          /\ t.ok
          /\ t.end = v + 1 + IntWidth(sub)
          /\ Admitted(t) =>
                Calls(t) = <<set(t.key, DecimalText(SignedAt(input, v + 1, IntWidth(sub))),
                                 t.exp)>>
    /\ sub > 3 => ~t.ok

\* C21: a blob with the encoded prefix and sub-code 0, 1 or 2 is the decimal
\* text of the signed integer in its next 1, 2 or 4 bytes (little-endian);
\* a sub-code other than 0..3 is rejected.
C21_IntegerBlobs ==
    \A i \in 1..Len(trace) :
        (trace[i].op = types_STRING /\ read_blob(input, trace[i].at + 1).ok
            /\ Have(input, KeyEnd(trace[i]), 1) /\ input[KeyEnd(trace[i])] >= 192) =>
            EncodedValue(trace[i], KeyEnd(trace[i]), input[KeyEnd(trace[i])] - 192)

\* an emitted INT32 value below -2^24
C21_Witness ==
    \E i \in 1..Len(trace) :
        /\ trace[i].op = types_STRING /\ Emitted(trace[i])
        /\ input[KeyEnd(trace[i])] = 194 /\ input[KeyEnd(trace[i]) + 4] = 128
        /\ Calls(trace[i])[1].a = <<45, 50, 49, 52, 55, 52, 56, 51, 54, 52, 56>>

\* w bytes at p, big-endian
RECURSIVE BEU(_, _, _)
BEU(s, p, w) == IF w = 0 THEN 0 ELSE BEU(s, p, w - 1) * 256 + s[p + w - 1]

\* The length prefix at p as specified: its value, its flag and its size.
LengthAsSpecified(s, p) ==
    CASE s[p] \div 64 = 0 -> [length |-> s[p] % 64, is_encoded |-> FALSE, size |-> 1]
      [] s[p] \div 64 = 1 ->
           [length |-> (s[p] % 64) * 256 + s[p + 1], is_encoded |-> FALSE, size |-> 2]
      [] s[p] \div 64 = 3 -> [length |-> s[p] % 64, is_encoded |-> TRUE, size |-> 1]
      [] s[p] = 128 -> [length |-> BEU(s, p + 1, 4), is_encoded |-> FALSE, size |-> 5]
      [] s[p] = 129 -> [length |-> BEU(s, p + 1, 8), is_encoded |-> FALSE, size |-> 9]
      [] OTHER -> [length |-> 0, is_encoded |-> FALSE, size |-> 0]

\* the decoder, applied at p, returns what l says and consumes l.size bytes
DecodesAs(p, l) ==
    l.size > 0 =>
        /\ read_length_with_encoding(input, p).ok
        /\ read_length_with_encoding(input, p).length = l.length
        /\ read_length_with_encoding(input, p).is_encoded = l.is_encoded
        /\ read_length_with_encoding(input, p).p = p + l.size

\* C22: the length prefix read at a SELECTDB record decodes as specified for
\* each of its five forms, and the record ends after 1, 2, 1, 5 or 9 bytes of
\* prefix with that database selected.
C22_LengthPrefix ==
    \A i \in 1..Len(trace) :
        (trace[i].op = SELECTDB /\ Have(input, trace[i].at + 1, 9)) =>
            /\ DecodesAs(trace[i].at + 1, LengthAsSpecified(input, trace[i].at + 1))
            /\ LengthAsSpecified(input, trace[i].at + 1).size > 0 =>
                  /\ trace[i].ok
                  /\ trace[i].db = LengthAsSpecified(input, trace[i].at + 1).length
                  /\ trace[i].end =
                        trace[i].at + 1 + LengthAsSpecified(input, trace[i].at + 1).size

\* the size of the payload of the integer entry with the flag byte
PayloadWidth(flag) ==
    CASE flag \div 16 = 12 -> 2
      [] flag \div 16 = 13 -> 4
      [] flag \div 16 = 14 -> 8
      [] flag = 240 -> 3
      [] flag = 254 -> 1
      [] OTHER -> 0

\* the 8 bytes at q are the sign extension of their low 4 bytes
Fits32(z, q) == \A k \in 4..7 : z[q + k] = IF z[q + 3] >= 128 THEN 255 ELSE 0

\* (b0 << 16) ^ (b1 << 8) ^ b2, sign-extended from 24 bits
Signed24At(z, q) ==
    z[q + 1] * 256 + z[q + 2] + TopByte(z[q]) * 65536

\* the integer that the flag denotes with the payload at q
IntegerOfFlag(z, q, flag) ==
    CASE flag \div 16 = 12 -> SignedAt(z, q, 2)
      [] flag \div 16 = 13 -> SignedAt(z, q, 4)
      [] flag \div 16 = 14 -> SignedAt(z, q, 4)
      [] flag = 240 -> Signed24At(z, q)
      [] flag = 254 -> TopByte(z[q])
      [] OTHER -> (flag % 16) - 1

\* z is a ziplist of one entry, an integer entry with one of the flags of the
\* table and a whole payload, followed by the terminator
OneIntegerEntry(z) ==
    /\ Len(z) >= 13
    /\ z[9] = 1 /\ z[10] = 0
    /\ z[11] # 254
    /\ z[12] >= 192 /\ z[12] <= 254
    /\ Len(z) = 13 + PayloadWidth(z[12])
    /\ z[Len(z)] = 255
    /\ (z[12] \div 16 = 14 => Fits32(z, 13))

\* the calls of the key record t are those of a list of the one integer n
SurfacedAs(t, n) ==
    /\ t.ok
    /\ Calls(t) = <<start_list(t.key, 1, t.exp), list_element(t.key, DecimalText(n)),
                    end_list(t.key)>>

\* the raw ziplist blob of the LIST_ZIPLIST record t
EntryBlob(t) == read_blob(input, KeyEnd(t)).val

\* C23: an emitted LIST_ZIPLIST key whose ziplist holds one integer entry
\* surfaces the signed integer that the flag denotes, as decimal text: 2, 4
\* and 8 byte little-endian signed values, the 3-byte value sign-extended
\* from 24 bits, the 1-byte value in -128..127, and the immediate 0..12.
C23_ZiplistIntegers ==
    \A i \in 1..Len(trace) :
        (/\ trace[i].op = types_LIST_ZIPLIST
         /\ Admitted(trace[i])
         /\ read_blob(input, trace[i].at + 1).ok
         /\ Have(input, KeyEnd(trace[i]), 1)
         /\ input[KeyEnd(trace[i])] < 64
         /\ read_blob(input, KeyEnd(trace[i])).ok
         /\ OneIntegerEntry(EntryBlob(trace[i]))) =>
            SurfacedAs(trace[i],
                       IntegerOfFlag(EntryBlob(trace[i]), 13, EntryBlob(trace[i])[12]))

\* the score that the score-length byte n denotes with the bytes at q, and
\* the number of score bytes that follow the byte
ScoreSize(n) == IF n >= 253 THEN 0 ELSE n
ScoreOf(s, q, n) ==
    CASE n = 253 -> Score("nan", <<>>)
      [] n = 254 -> Score("inf", <<>>)
      [] n = 255 -> Score("neg_inf", <<>>)
      [] OTHER -> Score("num", Slice(s, q, n))

\* the n (member, score) pairs at p as specified: a member blob, a
\* score-length byte and its score text; ok when all of them are in the input
RECURSIVE ZsetPairs(_, _, _)
ZsetPair(s, m, n) ==
    IF ~m.ok \/ ~Have(s, m.p, 1) THEN [ok |-> FALSE, p |-> 0, pairs |-> <<>>]
    ELSE IF s[m.p] < 253
            /\ ~(Have(s, m.p + 1, s[m.p]) /\ IsFloatText(Slice(s, m.p + 1, s[m.p])))
    THEN [ok |-> FALSE, p |-> 0, pairs |-> <<>>]
    ELSE [ZsetPairs(s, m.p + 1 + ScoreSize(s[m.p]), n - 1)
             EXCEPT !.pairs = <<[member |-> m.val, score |-> ScoreOf(s, m.p + 1, s[m.p])]>>
                              \o @]

ZsetPairs(s, p, n) ==
    IF n = 0 THEN [ok |-> TRUE, p |-> p, pairs |-> <<>>]
    ELSE ZsetPair(s, read_blob(s, p), n)

\* the key record t read the pairs z of a sorted set of n members
ZsetRead(t, n, z) ==
    z.ok =>
        /\ t.ok
        /\ t.end = z.p
        /\ Len(z.pairs) = n
        /\ Calls(t) =
              <<start_sorted_set(t.key, n, t.exp)>>
              \o [k \in 1..n |-> sorted_set_element(t.key, z.pairs[k].score, z.pairs[k].member)]
              \o <<end_sorted_set(t.key)>>

\* C24: an emitted ZSET key with length prefix N whose N members are each a
\* blob, a score-length byte and (below 253) that many bytes of score text
\* makes the calls start_sorted_set, N sorted_set_element with NaN for 253,
\* +infinity for 254, -infinity for 255 and the text otherwise, and
\* end_sorted_set, and ends after exactly those bytes.
C24_SortedSetScores ==
    \A i \in 1..Len(trace) :
        (/\ trace[i].op = types_ZSET
         /\ Admitted(trace[i])
         /\ read_blob(input, trace[i].at + 1).ok
         /\ read_length(input, KeyEnd(trace[i])).ok) =>
            ZsetRead(trace[i], read_length(input, KeyEnd(trace[i])).length,
                     ZsetPairs(input, read_length(input, KeyEnd(trace[i])).p,
                               read_length(input, KeyEnd(trace[i])).length))

\* a sorted set of two members is emitted, the first with +infinity and no
\* score bytes, the second with the two bytes "-2"
C24_Witness ==
    \E i \in 1..Len(trace) :
        /\ trace[i].op = types_ZSET
        /\ Emitted(trace[i])
        /\ Len(Calls(trace[i])) = 4
        /\ Calls(trace[i])[2].score = Score("inf", <<>>)
        /\ Calls(trace[i])[3].score = Score("num", <<45, 50>>)
        /\ trace[i].end = KeyEnd(trace[i]) + 9

\* the latch that the i-th record finds: the value of the latest expire opcode
\* before it with no key record in between, or nothing
RECURSIVE LatchBefore(_)
LatchBefore(i) ==
    IF i = 1 THEN None
    ELSE IF trace[i - 1].op \in {EXPIRETIME_MS, EXPIRETIME} THEN Latched(trace[i - 1])
    ELSE IF IsKeyRecord(trace[i - 1]) THEN None
    ELSE LatchBefore(i - 1)

\* C25: the latch is set by the expire opcodes and cleared by key records
\* only: every record finds the value of the latest expire opcode since the
\* last key record, whatever SELECTDB, RESIZEDB and AUX records lie between,
\* the first call of a key record carries it, and a second expire opcode
\* replaces the first.
C25_LatchFrame ==
    /\ pc = "loop" => last_expiretime = LatchBefore(Len(trace) + 1)
    /\ \A i \in 1..Len(trace) :
          /\ trace[i].exp = LatchBefore(i)
          /\ (IsKeyRecord(trace[i]) /\ trace[i].ok /\ Calls(trace[i]) # <<>>) =>
                Calls(trace[i])[1].exp = LatchBefore(i)

\* an expire opcode, then a SELECTDB, RESIZEDB or AUX record, then an emitted
\* key record that carries the expiry
C25_Witness ==
    /\ Len(trace) >= 3
    /\ trace[1].op \in {EXPIRETIME_MS, EXPIRETIME}
    /\ trace[2].op \in {SELECTDB, RESIZEDB, AUX}
    /\ IsKeyRecord(trace[3]) /\ trace[3].ok /\ Calls(trace[3]) # <<>>
    /\ Calls(trace[3])[1].exp = Latched(trace[1])
    /\ Latched(trace[1]) # None

\* the encoding types the dispatcher reads, and the value type of each
DispatchedTypes == {0, 1, 2, 3, 4, 5, 9, 10, 11, 12, 13, 14}

TypeAsSpecified(b) ==
    CASE b = 0 -> "String"
      [] b \in {4, 9, 13} -> "Hash"
      [] b \in {1, 10, 14} -> "List"
      [] b \in {2, 11} -> "Set"
      [] b \in {3, 12, 5} -> "SortedSet"

\* C26: for every key record of a dispatched type whose database matches and
\* whose key was read, matches_type returns a boolean: true with an empty
\* type list, and otherwise whether the value type of the byte (14 a List, 5
\* a SortedSet) is in the list; the parse is not aborted by it.
C26_MatchesTypeTotal ==
    \A i \in 1..Len(trace) :
        (/\ IsKeyRecord(trace[i])
         /\ trace[i].op \in DispatchedTypes
         /\ matches_db(filter, trace[i].db)
         /\ read_blob(input, trace[i].at + 1).ok) =>
            /\ matches_type(filter, trace[i].op).ok
            /\ matches_type(filter, trace[i].op).res =
                  (filter.types = {} \/ TypeAsSpecified(trace[i].op) \in filter.types)
            /\ (ReadEnd(trace[i]).ok /\ SkipObjectEnd(trace[i]).ok) => trace[i].ok

\* the indexes printed by Plain, in order: the write that follows each "["
RECURSIVE IndexesIn(_)
IndexesIn(o) ==
    IF Len(o) < 2 THEN <<>>
    ELSE IF o[1] = Lit("[") THEN <<o[2].bytes>> \o IndexesIn(Tail(Tail(o)))
    ELSE IndexesIn(Tail(o))

\* the number of calls among the first k that print an index
IndexedBefore(k) ==
    Cardinality({j \in 1..k : formatter[j].op \in {"list_element", "sorted_set_element"}})

\* the n list_element lines of the key record t print 0, 1, ..., n - 1
CountedFromZero(t, n, printed) ==
    \A j \in 1..n :
        /\ IndexedBefore(t.from) + j <= Len(printed)
        /\ printed[IndexedBefore(t.from) + j] = NatDigits(j - 1)

\* C28: for every emitted list-shaped key (LIST, LIST_ZIPLIST,
\* LIST_QUICKLIST) the i-th list_element line that Plain writes for the key
\* prints the index i, counted from 0, whatever keys came before it.
C28_PlainListIndex ==
    \A i \in 1..Len(trace) :
        (/\ trace[i].op \in {types_LIST, types_LIST_ZIPLIST, types_LIST_QUICKLIST}
         /\ Emitted(trace[i])) =>
            CountedFromZero(trace[i], Len(SelectSeq(Calls(trace[i]), IsListElement)),
                            IndexesIn(plain.out))

IsStart(e) == e.op \in {"start_hash", "start_set", "start_list", "start_sorted_set"}
IsElement(e) == e.op \in {"hash_element", "set_element", "list_element", "sorted_set_element"}
IsEnd(e) == e.op \in {"end_hash", "end_set", "end_list", "end_sorted_set"}

\* the start call of the key that the call k belongs to: the latest before k
OpenedAt(k) ==
    CHOOSE j \in 1..(k - 1) :
        IsStart(formatter[j]) /\ \A i \in (j + 1)..(k - 1) : ~IsStart(formatter[i])

\* the RESP array of the arguments
Resp(args) == <<Lit("*"), Bytes(NatDigits(Len(args))), Lit("\r\n")>> \o EmitArgs(args)

PEXPIREAT == <<80, 69, 88, 80, 73, 82, 69, 65, 84>>

\* PEXPIREAT key ms for an expiry, nothing for none
ExpiryCommand(key, expiry) ==
    IF expiry = None THEN <<>> ELSE Resp(<<PEXPIREAT, key, DecimalText(expiry[1])>>)

ElementCommand(e) ==
    CASE e.op = "hash_element" -> <<<<72, 83, 69, 84>>, e.key, e.a, e.b>>
      [] e.op = "set_element" -> <<<<83, 65, 68, 68>>, e.key, e.a>>
      [] e.op = "list_element" -> <<<<82, 80, 85, 83, 72>>, e.key, e.a>>
      [] e.op = "sorted_set_element" -> <<<<90, 65, 68, 68>>, e.key, e.score.text, e.a>>

\* what the k-th call is to write: the command of a set or of an element,
\* and the PEXPIREAT of a key after its SET or at its end_X
CommandsOf(k) ==
    CASE formatter[k].op = "start_database" ->
           Resp(<<<<83, 69, 76, 69, 67, 84>>, DecimalText(formatter[k].n)>>)
      [] formatter[k].op = "set" ->
           Resp(<<<<83, 69, 84>>, formatter[k].key, formatter[k].a>>)
           \o ExpiryCommand(formatter[k].key, formatter[k].exp)
      [] IsElement(formatter[k]) -> Resp(ElementCommand(formatter[k]))
      [] IsEnd(formatter[k]) ->
           ExpiryCommand(formatter[k].key, formatter[OpenedAt(k)].exp)
      [] OTHER -> <<>>

RECURSIVE CommandsUpTo(_)
CommandsUpTo(k) == IF k = 0 THEN <<>> ELSE CommandsUpTo(k - 1) \o CommandsOf(k)

\* C27: the Protocol output is, call by call, the command of each set and
\* element, with one PEXPIREAT key ms after the SET of a key with expiry and
\* at the end_X of a collection whose start_X carried an expiry, and none
\* for a key without; after every set and every end_X last_expiry is empty.
C27_ProtocolExpiry ==
    /\ protocol.out = CommandsUpTo(Len(formatter))
    /\ (formatter # <<>>
          /\ (formatter[Len(formatter)].op = "set" \/ IsEnd(formatter[Len(formatter)]))) =>
          protocol.last_expiry = None

\* a collection with expiry and an element has ended, a key without expiry
\* was set after it, and one PEXPIREAT was written
C27_Witness ==
    \E k \in 3..(Len(formatter) - 1) :
        /\ IsEnd(formatter[k])
        /\ IsElement(formatter[k - 1])
        /\ formatter[OpenedAt(k)].exp # None
        /\ formatter[k + 1].op = "set"
        /\ formatter[k + 1].exp = None
        /\ Cardinality({i \in 1..Len(protocol.out) : protocol.out[i] = Bytes(PEXPIREAT)}) = 1

\* the brackets, braces and commas of a literal that JSON writes
StructOf(lit) ==
    CASE lit \in {"[", ":["} -> <<"[">>
      [] lit \in {"{", ":{"} -> <<"{">>
      [] lit = "}" -> <<"}">>
      [] lit \in {"]", "]\n"} -> <<"]">>
      [] lit = "}," -> <<"}", ",">>
      [] lit = "," -> <<",">>
      [] OTHER -> <<>>

\* the brackets, braces and commas of the output o outside its strings
RECURSIVE Structure(_)
Structure(o) == IF o = <<>> THEN <<>> ELSE StructOf(Head(o).lit) \o Structure(Tail(o))

\* the nesting depth before the k-th character of c
DepthBefore(c, k) ==
    Cardinality({j \in 1..(k - 1) : c[j] \in {"[", "{"}})
    - Cardinality({j \in 1..(k - 1) : c[j] \in {"]", "}"}})

\* the opening character that the closing character at k closes
OpenerOf(c, k) ==
    CHOOSE j \in 1..(k - 1) :
        /\ c[j] \in {"[", "{"}
        /\ DepthBefore(c, j) = DepthBefore(c, k) - 1
        /\ \A i \in (j + 1)..(k - 1) : DepthBefore(c, i) >= DepthBefore(c, k)

\* every closing character closes an opening one of its kind, and none is
\* left open
WellNested(c) ==
    /\ DepthBefore(c, Len(c) + 1) = 0
    /\ \A k \in 1..Len(c) :
          /\ c[k] \in {"]", "}"} => DepthBefore(c, k) >= 1
          /\ (c[k] = "]" /\ DepthBefore(c, k) >= 1) => c[OpenerOf(c, k)] = "["
          /\ (c[k] = "}" /\ DepthBefore(c, k) >= 1) => c[OpenerOf(c, k)] = "{"

\* the number of characters ch of c at the depth d
CountAt(c, ch, d) == Cardinality({k \in 1..Len(c) : c[k] = ch /\ DepthBefore(c, k) = d})

\* the output with the structure c is one array, opened first and closed
\* last, of one object per database
ArrayOfDatabases(c) ==
    /\ WellNested(c)
    /\ c # <<>> /\ c[1] = "[" /\ c[Len(c)] = "]"
    /\ CountAt(c, "[", 0) = 1
    /\ CountAt(c, "]", 1) = 1
    /\ CountAt(c, "{", 1) = Count("start_database")
    /\ CountAt(c, "}", 2) = Count("start_database")
    /\ Count("start_database") = 0 => \A k \in 1..Len(c) : c[k] # "}"

\* C29: after start_rdb, any databases of keys and end_rdb, the JSON output
\* opens one array and closes it once, every "{" of a start_database is
\* closed by one "}" before the next database or the end of the array, and
\* without a start_database no "}" is written.
C29_JsonBrackets == pc = "ended" => ArrayOfDatabases(Structure(json.out))

\* two databases, the first with a hash key, have been written and closed
C29_Witness ==
    /\ pc = "ended"
    /\ Count("start_database") = 2
    /\ Count("start_hash") = 1
    /\ CountAt(Structure(json.out), "}", 2) = 2
    /\ CountAt(Structure(json.out), "}", 3) = 1

\* no key was started in the calls log since the last start_database
FirstKeyInDb(log) ==
    \A j \in 1..Len(log) :
        log[j].op \in StartOps => \E i \in (j + 1)..Len(log) : log[i].op = "start_database"

\* the writes w begin with a comma / hold a comma after their first write
CommaFirst(w) == w # <<>> /\ w[1] = Lit(",")
CommaLater(w) == \E k \in 2..Len(w) : w[k] = Lit(",")

\* the number of key starts of the log that are not the first of their
\* database, and of elements that are not the first of their key
LaterKeys(log) ==
    Cardinality({k \in 1..Len(log) :
                    log[k].op \in StartOps /\ ~FirstKeyInDb(SubSeq(log, 1, k - 1))})
LaterElements(log) ==
    Cardinality({k \in 2..Len(log) : IsElement(log[k]) /\ IsElement(log[k - 1])})

\* one call e was made after the calls log, and it wrote w
SeparatorWritten(log, e, w) ==
    /\ ~CommaLater(w)
    /\ CommaFirst(w) =
          \/ e.op \in StartOps /\ ~FirstKeyInDb(log)
          \/ IsElement(e) /\ IsElement(log[Len(log)])

\* C30: JSON writes "," first in a call exactly when the call starts a key
\* that is not the first key since the last start_database, or is an element
\* that is not the first element since the start of its key, and nowhere
\* else; so the commas are one per later key and one per later element (n - 1
\* for a key of n > 0 elements), whatever length start_X gave.
C30_JsonSeparators ==
    /\ [](Cardinality({k \in 1..Len(json.out) : json.out[k] = Lit(",")}) =
            LaterKeys(formatter) + LaterElements(formatter))
    /\ [][Len(formatter') = Len(formatter) + 1 =>
            SeparatorWritten(formatter, formatter'[Len(formatter')],
                             SubSeq(json.out', Len(json.out) + 1, Len(json.out')))]_vars

\* after a set, a list with the length 0 has ended with two elements: one
\* comma before the list and one before its second element
C30_Witness ==
    \E k \in 5..Len(formatter) :
        /\ formatter[k].op = "end_list"
        /\ formatter[k - 1].op = "list_element"
        /\ formatter[k - 2].op = "list_element"
        /\ formatter[k - 3].op = "start_list" /\ formatter[k - 3].n = 0
        /\ formatter[k - 4].op = "set"
        /\ Cardinality({i \in 1..Len(json.out) : json.out[i] = Lit(",")}) = 2

(***************************************************************************)
(* ReadProgressBar (SpecReadPb): trace holds one entry per call of read.   *)
(***************************************************************************)
\* where the progress bar stood after the i-th read
BarAfter(i) == IF i = Len(trace) THEN progress_bar ELSE trace[i + 1].before

\* the byte counts of the successful reads among the first i, summed
RECURSIVE SuccessfulBytes(_)
SuccessfulBytes(i) ==
    IF i = 0 THEN 0
    ELSE SuccessfulBytes(i - 1) + (IF trace[i].inner.ok THEN trace[i].inner.n ELSE 0)

\* C31: every read of a ReadProgressBar returns what the wrapped reader
\* returned (same byte count, same bytes, same error); after any sequence of
\* reads the progress bar has advanced by exactly the sum of the byte counts
\* of the successful reads, and a failing read advances it by nothing.
C31_TransparentExact ==
    pc = "reading" =>
        /\ \A i \in 1..Len(trace) :
              /\ trace[i].returned = trace[i].inner
              /\ ~trace[i].inner.ok => BarAfter(i) = trace[i].before
        /\ Len(trace) > 0 =>
              progress_bar = trace[1].before + SuccessfulBytes(Len(trace))

\* a short read, a read at the end of the data and a failing read have all
\* happened, on a progress bar that did not start at 0
C31_Witness ==
    /\ pc = "reading"
    /\ Len(trace) = MaxReads
    /\ trace[1].before > 0
    /\ \E i \in 1..Len(trace) :
          trace[i].inner.ok /\ trace[i].inner.n > 0 /\ trace[i].inner.n < trace[i].buf
    /\ \E i \in 2..Len(trace) : ~trace[i].inner.ok /\ trace[i].before > trace[1].before
    /\ \E i \in 1..Len(trace) :
          trace[i].inner.ok /\ trace[i].inner.n = 0 /\ trace[i].buf > 0

(***************************************************************************)
(* write_str (SpecWriter): trace holds one entry per call of write_str.    *)
(***************************************************************************)
\* the bytes the writer received during the i-th call
Received(i) == SubSeq(writer, trace[i].before + 1, trace[i].after)

\* C32: write_str(out, data) returns Ok only after every byte of data has
\* been written to out: when the writer accepts fewer bytes than offered in
\* one write call, the rest is still written or an error is returned.
C32_WriteStrWritesAll ==
    pc = "writing" =>
        \A i \in 1..Len(trace) : trace[i].returned.ok => Received(i) = trace[i].data

====
